---- MODULE Spec2Model ----
(***************************************************************************)
(* Per-client session engine of webircgateway (pkg/webircgateway).         *)
(* One session is modelled together with the tasks that touch it: the      *)
(* transport reader, the throttler, the selector worker                    *)
(* (clientLineWorker), the upstream reader (readUpstream), script hook     *)
(* callers, the transport's signal loop and the registry goroutine that    *)
(* NewClient starts.  Client.Ready (the DNSBL check) has no caller in the   *)
(* sources and is left out.                                                *)
(***************************************************************************)
EXTENDS Integers, Sequences, FiniteSets, TLC

\* ---------------------------------------------------------------- bounds
\* Capacity of every queue of the session (the source allocates 50).
ChanCap == 2
\* Number of lines the client transport reads before it can only close.
MaxClientLines == 3
\* Number of lines the upstream server sends before it can only close.
MaxUpstreamLines == 2
\* Number of ClientClose calls made by script hooks.
MaxHookCalls == 1
\* Number of events the environment hands the session in one run: client
\* lines, the client disconnecting, upstream lines, the upstream server
\* disconnecting, ClientClose calls.
MaxInputs == 3
\* The same, for the runs that need a session to register and then
\* exchange two more lines.
MaxLongInputs == 4
\* Lines in a script of upstream lines around the ISUPPORT numerics
MaxIsupportLines == 4
\* Lines in a script of upstream JOIN, PART, QUIT and NICK lines
MaxChannelLines == 4

\* Upper bound on the lines of a CAP and EXTJWT script
MaxCapLines == 4

\* Upper bound on the lines of a tagged-message script
MaxTagLines == 4

\* Upper bound on the length of a signed token
MaxTokenLen == 450

\* Number of lines a client sends in a forwarding script
MaxForwardLines == 4

\* Upper bound on the lines of a capability-negotiation script
MaxAckLines == 4

\* Upper bound on the lines of a TAGMSG script
MaxTagmsgLines == 4

\* Upper bound on the lines of a MODE script
MaxModeLines == 4

\* Entries of the client's input (lines, the close) in the teardown
\* interleavings
MaxTeardownTurns == 3

\* Upper bound on the lines the workers of two sessions handle
MaxStallLines == 3

\* ------------------------------------------------------------- constants
ClientStateIdle == "idle"
\* var MAX_EXTJWT_SIZE = 200
MAX_EXTJWT_SIZE == 200
ClientStateConnecting == "connecting"
ClientStateRegistering == "registering"
ClientStateConnected == "connected"
ClientStateEnding == "ending"

\* The id NewClient gives the session.
ClientId == 2

Tasks == {"worker", "transport", "hook"}

\* Commands a client line can carry (everything else behaves as PRIVMSG).
ClientCmds == {"NICK", "USER", "CAPTCHA", "HOST", "PRIVMSG", "QUIT"}
\* Commands an upstream line can carry (everything else behaves as PING).
UpstreamCmds == {"001", "PING"}
\* First parameter of a NICK line / of a USER line.
NickValues == {"", "alice"}
UserValues == {"", "alice"}
\* Address of a HOST line: empty, on the whitelist, not on the whitelist.
HostValues == {"", "irc.allowed", "irc.forbidden"}
\* Reasons a script passes to ClientClose.
HookReasons == {"kicked"}
\* An error value: its dynamic type, the field the type switch reads (Type
\* of a proxy.ConnError, Op of a net.OpError, the number of a
\* syscall.Errno) and the cause it wraps.
Err(type, detail, inner) == [type |-> type, detail |-> detail, inner |-> inner]
\* Errors of a failed dial.
DialErrors == {Err("proxy.ConnError", "conn_refused", ""),
               Err("proxy.ConnError", "conn_reset", "")}

VARIABLES
    Config,            \* gateway.Config: the settings the session has read
    Clients,           \* gateway.Clients: ids of the registered sessions
    created,           \* NewClient has run
    State,             \* Client.State
    shuttingDown,      \* Client.shuttingDown
    shuttingDownLock,  \* holder of Client.shuttingDownLock, "none" when free
    EndWG,             \* counter of Client.EndWG
    SeenQuit,          \* Client.SeenQuit
    UpstreamStarted,   \* Client.UpstreamStarted
    RequiresVerification, \* Client.RequiresVerification
    Verified,          \* Client.Verified
    SentPass,          \* Client.SentPass
    IrcState,          \* Client.IrcState: Nick, Username
    DestHost,          \* Client.DestHost
    UpstreamConfig,    \* Client.UpstreamConfig: which passwords are set
    Recv,              \* Client.Recv: buffered lines
    recvClosed,        \* close(client.Recv) has run
    Output,            \* ThrottledRecv.Output: buffered lines
    outputClosed,      \* close(c.out) has run
    UpstreamSend,      \* Client.UpstreamSend: buffered lines
    UpstreamRecv,      \* Client.UpstreamRecv: buffered lines
    upstreamRecvClosed,\* close(client.UpstreamRecv) has run
    Signals,           \* Client.Signals: buffered signals
    signalsClosed,     \* number of close(c.Signals) executed
    upstream,          \* Client.upstream: "nil" or "conn"
    conn,              \* the upstream stream: "none", "open", "closed"
    todo,              \* per task: the statements left in its current call
    workerQuit,        \* clientLineWorker has left its loop
    upstreamSendCase,  \* handleDataLine's local upstreamSend is non-nil
    readerPc,          \* readUpstream goroutine: none, reading, ending, done
    waiterPc,          \* NewClient's goroutine: none, waiting, done
    clientSeq,         \* lines the transport has read from the client
    upstreamSeq,       \* lines the upstream reader has read
    hookCalls,         \* ClientClose calls made so far
    inputsLeft,        \* events the environment may still produce
    written,           \* everything written to the upstream stream, in order
    sent,              \* every signal enqueued on Signals, in order
    hist,              \* observations of the run (counters, reasons)
    script,            \* line processing: the lines handed to the sessions
    pos,               \* line processing: lines of script handled so far
    session,           \* line processing: per session, the fields the
                       \* line processors read and write
    messageTags,       \* line processing: gateway.messageTags
    args,              \* function calls: the arguments of the call
    result             \* function calls: <<>>, or <<r>> once it returned r

vars == <<Config, Clients, created, State, shuttingDown, shuttingDownLock,
          EndWG, SeenQuit, UpstreamStarted, RequiresVerification, Verified,
          SentPass, IrcState, DestHost, UpstreamConfig, Recv, recvClosed,
          Output, outputClosed, UpstreamSend, UpstreamRecv,
          upstreamRecvClosed, Signals, signalsClosed, upstream, conn, todo,
          workerQuit, upstreamSendCase, readerPc, waiterPc, clientSeq,
          upstreamSeq, hookCalls, inputsLeft, written, sent, hist,
          script, pos, session, messageTags, args, result>>

\* Variable groups, for UNCHANGED.
clientVars == <<Config, Clients, created, State, shuttingDown,
                shuttingDownLock, EndWG, SeenQuit, UpstreamStarted,
                RequiresVerification, Verified, SentPass, IrcState, DestHost,
                UpstreamConfig, Recv, recvClosed, Output, outputClosed,
                UpstreamSend, UpstreamRecv, upstreamRecvClosed, Signals,
                signalsClosed, upstream, conn, todo, workerQuit,
                upstreamSendCase, readerPc, waiterPc, clientSeq, upstreamSeq,
                hookCalls, inputsLeft, written, sent, hist>>
sessVars == <<SeenQuit, UpstreamStarted, RequiresVerification, Verified,
              SentPass, IrcState, DestHost, UpstreamConfig>>
latchVars == <<State, shuttingDown, EndWG, signalsClosed>>
clientQ == <<Recv, recvClosed, Output, outputClosed, clientSeq>>
upQ == <<UpstreamRecv, upstreamRecvClosed, upstreamSeq>>
connVars == <<upstream, conn, readerPc, written>>
sigVars == <<Signals, sent>>
regVars == <<Config, Clients, created, waiterPc>>
workerVars == <<workerQuit, upstreamSendCase>>
lineVars == <<script, pos, session, messageTags, args, result>>

\* ------------------------------------------------------------- helpers
\* A line in a queue: its command and the number it got when it was read
\* (0 for a line the gateway makes up).
Line(cmd, n) == [cmd |-> cmd, n |-> n]
NoLine == Line("", 0)

\* ClientSignal{kind, a, b}.  n is the number of the upstream line a data
\* signal carries (0 otherwise) and from names the function that sent it.
ClientSignal(kind, a, b, n, from) ==
    [kind |-> kind, a |-> a, b |-> b, n |-> n, from |-> from]
NoSignal == ClientSignal("", "", "", 0, "")

\* One statement of a call in progress: op names the statement, arg is its
\* string argument, sig the signal and line the line it carries.
Op(op, arg, sig, line) == [op |-> op, arg |-> arg, sig |-> sig, line |-> line]

\* A call of SendClientSignal
SendClientSignalOps(sig) == << Op("signal", "", sig, NoLine) >>

\* SendIrcError(message)
SendIrcErrorOps(message, from) ==
    SendClientSignalOps(ClientSignal("data", "ERROR", message, 0, from))

\* The statement is SendClientSignal("state", "closed", code)
ClosedSignalOp(o) ==
    o.op = "signal" /\ o.sig.kind = "state" /\ o.sig.a = "closed"

\* A call of StartShutdown(reason)
StartShutdownOps(reason) == << Op("shutdown", reason, NoSignal, NoLine) >>

\* The environment hands the session one more event
Input == inputsLeft > 0 /\ inputsLeft' = inputsLeft - 1

HasNext(t, op) == Len(todo[t]) > 0 /\ Head(todo[t]).op = op
Rest(t) == Tail(todo[t])

\* The end of handleDataLine: clientLineWorker leaves its loop ("quit") or
\* calls handleDataLine again, whose local upstreamSend is nil when
\* c.upstream is nil.
Ret(how) == << Op("ret", how, NoSignal, NoLine) >>

\* The worker goes on with the statements rest, q being UpstreamSend as
\* the step leaves it.  The statements no other task can observe happen in
\* the same step: c.UpstreamSend <- clientLine when the queue has room
\* (when it is full the send blocks for good, the worker being the queue's
\* only reader), and the return of handleDataLine.
WorkerContinue(rest, q) ==
    LET sendNow == rest # <<>> /\ Head(rest).op = "send" /\ Len(q) < ChanCap
        left == IF sendNow THEN Tail(rest) ELSE rest
    IN  /\ UpstreamSend' = IF sendNow THEN Append(q, Head(rest).line) ELSE q
        /\ IF left # <<>> /\ Head(left).op = "ret"
              THEN /\ todo' = [todo EXCEPT !["worker"] = <<>>]
                   /\ workerQuit' = (Head(left).arg = "quit")
                   /\ upstreamSendCase' =
                        (upstream # "nil" /\ Head(left).arg # "quit")
              ELSE /\ todo' = [todo EXCEPT !["worker"] = left]
                   /\ UNCHANGED <<workerQuit, upstreamSendCase>>

\* Task t goes on with the statements rest.
Continue(t, rest) ==
    IF t = "worker"
       THEN WorkerContinue(rest, UpstreamSend)
       ELSE /\ todo' = [todo EXCEPT ![t] = rest]
            /\ UNCHANGED <<workerQuit, upstreamSendCase, UpstreamSend>>

\* err.(net.Error) succeeds and Timeout() is true: a net.OpError whose
\* cause timed out, a net.DNSError that timed out, the Errno ETIMEDOUT.
IsTimeout(err) ==
    \/ err.type = "net.OpError" /\ err.inner \in {"ETIMEDOUT", "i/o timeout"}
    \/ err.type = "net.DNSError" /\ err.detail = "timeout"
    \/ err.type = "syscall.Errno" /\ err.detail = "ETIMEDOUT"

\* typeOfErr: the class of a dial error as a string, "" when unclassified.
typeOfErr(err) ==
    IF err.type = "nil" THEN ""
    ELSE IF IsTimeout(err) THEN "timeout"
    ELSE CASE err.type = "proxy.ConnError" ->
                (CASE err.detail = "conn_reset" -> ""
                   [] err.detail = "conn_refused" -> "refused"
                   [] err.detail = "not_found" -> "unknown_host"
                   [] err.detail = "conn_timeout" -> "timeout"
                   [] OTHER -> "")
           [] err.type = "net.OpError" ->
                (IF err.detail = "dial" THEN "unknown_host"
                 ELSE IF err.detail = "read" THEN "refused"
                 ELSE "")
           [] err.type = "syscall.Errno" ->
                (IF err.detail = "ECONNREFUSED" THEN "refused" ELSE "")
           [] OTHER -> ""

\* The class alone, without the "err_" in front
ErrPrefixMissing(s) == s

\* "err_" + s
ErrPrefix(s) ==
    CASE s = "timeout" -> "err_timeout"
      [] s = "refused" -> "err_refused"
      [] s = "unknown_host" -> "err_unknown_host"
      [] OTHER -> "err_"

\* gateway.Config.  The configuration is fixed when the gateway starts; a
\* setting the session has not consulted yet is held as "unread" and drawn
\* at its first read, which yields the same runs as drawing it at start.
\* Read(setting) is the set of values a read of the setting can return.
Read(setting) == IF setting = "unread" THEN {"on", "off"} ELSE {setting}

\* ---------------------------------------------------------------- Init
\* The gateway before the client connects, the environment having budget
\* events to produce.
Start(budget) ==
    /\ Config \in [RequiresVerification : BOOLEAN,
                   SendQuitOnClientClose : {"unread"},
                   Gateway : {"unread"}]
    /\ Clients = {}
    /\ created = FALSE
    /\ State = ClientStateIdle
    /\ shuttingDown = FALSE
    /\ shuttingDownLock = "none"
    /\ EndWG = 0
    /\ SeenQuit = FALSE
    /\ UpstreamStarted = FALSE
    /\ RequiresVerification = FALSE
    /\ Verified = FALSE
    /\ SentPass = FALSE
    /\ IrcState = [Nick |-> "", Username |-> ""]
    /\ DestHost = ""
    /\ UpstreamConfig = [WebircPassword |-> "off", ServerPassword |-> "off"]
    /\ Recv = <<>>
    /\ recvClosed = FALSE
    /\ Output = <<>>
    /\ outputClosed = FALSE
    /\ UpstreamSend = <<>>
    /\ UpstreamRecv = <<>>
    /\ upstreamRecvClosed = FALSE
    /\ Signals = <<>>
    /\ signalsClosed = 0
    /\ upstream = "nil"
    /\ conn = "none"
    /\ todo = [t \in Tasks |-> <<>>]
    /\ workerQuit = FALSE
    /\ upstreamSendCase = FALSE
    /\ readerPc = "none"
    /\ waiterPc = "none"
    /\ clientSeq = 0
    /\ upstreamSeq = 0
    /\ hookCalls = 0
    /\ inputsLeft = budget
    /\ written = <<>>
    /\ sent = <<>>
    /\ hist = [connectEntered |-> 0, dials |-> 0, dialFailed |-> FALSE,
               shutdownReason |-> "", shutdownCalls |-> 0, removals |-> 0,
               signalDropped |-> FALSE, upstreamHalted |-> 0,
               upstreamEndSeen |-> FALSE,
               sentOnClosed |-> FALSE, closedOutsideLock |-> FALSE,
               captchaAccepted |-> FALSE, connectedAtClose |-> FALSE,
               everConnected |-> FALSE, quitSkipped |-> FALSE,
               rejected |-> "",
               atConnect |-> [cmd |-> "", started |-> FALSE, nick |-> "",
                              username |-> "", requires |-> FALSE,
                              verified |-> FALSE]]

\* No lines are handed to the line processors.
NoScript ==
    /\ script = <<>>
    /\ pos = 0
    /\ session = <<>>
    /\ messageTags = {}
    /\ args = <<>>
    /\ result = <<>>

Init == Start(MaxInputs) /\ NoScript

LongInit == Start(MaxLongInputs) /\ NoScript

\* ----------------------------------------------------- session creation
\* NewClient: the session starts idle, is put in the registry, and a
\* goroutine is left waiting on EndWG.  The selector worker starts with no
\* upstream, so its upstreamSend case is off.
NewClient ==
    /\ ~created
    /\ created' = TRUE
    /\ State' = ClientStateIdle
    /\ RequiresVerification' = Config.RequiresVerification
    /\ EndWG' = EndWG + 1
    /\ Clients' = Clients \cup {ClientId}
    /\ waiterPc' = "waiting"
    /\ upstreamSendCase' = FALSE
    /\ UNCHANGED <<Config, shuttingDown, shuttingDownLock, SeenQuit,
                   UpstreamStarted, Verified, SentPass, IrcState, DestHost,
                   UpstreamConfig, clientQ, UpstreamSend, upQ, sigVars,
                   signalsClosed, connVars, todo, workerQuit, hookCalls, lineVars,
                   inputsLeft, hist>>

\* The goroutine without its c.EndWG.Wait()
EndWGWaitSkipped == TRUE

\* c.EndWG.Wait() returns
EndWGWaitReturns == EndWG = 0

\* The goroutine NewClient starts: once EndWG.Wait() returns it removes the
\* session from the registry (and dispatches client.state).
RegistryRemove ==
    /\ waiterPc = "waiting"
    /\ EndWGWaitReturns
    /\ waiterPc' = "done"
    /\ hist' = [hist EXCEPT !.removals = IF ClientId \in Clients THEN @ + 1 ELSE @]
    /\ Clients' = Clients \ {ClientId}
    /\ UNCHANGED <<Config, created, latchVars, shuttingDownLock, sessVars,
                   clientQ, UpstreamSend, upQ, sigVars, connVars, todo,
                   workerVars, hookCalls, lineVars, inputsLeft>>

\* ------------------------------------------------- the shutdown latch
\* c.shuttingDownLock.Lock() succeeds for task t.  A critical section
\* that cannot block is one step; the lock is held across steps only by a
\* SendClientSignal whose send waits for room in Signals.
LockIsFree(t) == shuttingDownLock = "none" \/ shuttingDownLock = t

\* StartShutdown without its c.EndWG.Done()
EndWGDoneMissing(n) == n

\* c.EndWG.Done(), n being the counter
EndWGDone(n) == n - 1

\* StartShutdown without its test of shuttingDown
ShutdownUnlatched == TRUE

\* if !c.shuttingDown, in StartShutdown
ShutdownNotStarted == ~shuttingDown

\* StartShutdown(reason): Lock, the body, the deferred Unlock.
StartShutdown(t) ==
    /\ HasNext(t, "shutdown")
    /\ LockIsFree(t)
    /\ IF ShutdownNotStarted
          THEN /\ shuttingDown' = TRUE
               /\ State' = ClientStateEnding
               /\ signalsClosed' = signalsClosed + 1
               /\ EndWG' = EndWGDone(EndWG)
               /\ hist' = [hist EXCEPT
                    !.shutdownReason = Head(todo[t]).arg,
                    !.shutdownCalls = @ + 1,
                    !.closedOutsideLock = @ \/ ~(shuttingDownLock \in {"none", t})]
          ELSE /\ hist' = [hist EXCEPT !.shutdownCalls = @ + 1]
               /\ UNCHANGED latchVars
    /\ shuttingDownLock' = "none"
    /\ Continue(t, Rest(t))
    /\ UNCHANGED <<regVars, sessVars, clientQ, upQ, sigVars, connVars,
                   hookCalls, lineVars, inputsLeft>>

\* SendClientSignal without its test of shuttingDown
SignalUnlatched == TRUE

\* if !c.shuttingDown, in SendClientSignal
SignalNotShuttingDown == ~shuttingDown

\* SendClientSignal: Lock, then the send finds Signals full and waits with
\* the lock held.
SendClientSignalWait(t) ==
    /\ HasNext(t, "signal")
    /\ shuttingDownLock = "none"
    /\ SignalNotShuttingDown
    /\ Len(Signals) >= ChanCap
    /\ shuttingDownLock' = t
    /\ UNCHANGED <<regVars, latchVars, sessVars, clientQ, UpstreamSend, upQ,
                   sigVars, connVars, todo, workerVars, hookCalls, lineVars, inputsLeft,
                   hist>>

\* SendClientSignal: Lock, the send unless shutting down, the deferred
\* Unlock.
SendClientSignal(t) ==
    /\ HasNext(t, "signal")
    /\ LockIsFree(t)
    /\ IF SignalNotShuttingDown
          THEN /\ Len(Signals) < ChanCap
               /\ Signals' = Append(Signals, Head(todo[t]).sig)
               /\ sent' = Append(sent, Head(todo[t]).sig)
               /\ hist' = [hist EXCEPT !.sentOnClosed = @ \/ signalsClosed > 0]
          ELSE /\ hist' = [hist EXCEPT !.signalDropped = TRUE]
               /\ UNCHANGED sigVars
    /\ shuttingDownLock' = "none"
    /\ Continue(t, Rest(t))
    /\ UNCHANGED <<regVars, latchVars, sessVars, clientQ, upQ, connVars,
                   hookCalls, lineVars, inputsLeft>>

\* ------------------------------------------------------ the transport
\* A transport reader that sends on Recv with a plain, blocking send
TransportDeliverBlocking(cmd) ==
    /\ created
    /\ ~recvClosed
    /\ clientSeq < MaxClientLines
    /\ Input
    /\ Len(Recv) < ChanCap
    /\ clientSeq' = clientSeq + 1
    /\ Recv' = Append(Recv, Line(cmd, clientSeq + 1))
    /\ UNCHANGED <<regVars, latchVars, shuttingDownLock, sessVars, recvClosed,
                   Output, outputClosed, UpstreamSend, upQ, sigVars, connVars,
                   todo, workerVars, hookCalls, lineVars, hist>>

\* The transport reader got a line from the client: non-blocking send on
\* Recv, dropped when the queue is full.
TransportDeliver(cmd) ==
    /\ created
    /\ ~recvClosed
    /\ clientSeq < MaxClientLines
    /\ Input
    /\ clientSeq' = clientSeq + 1
    /\ Recv' = IF Len(Recv) < ChanCap
                  THEN Append(Recv, Line(cmd, clientSeq + 1))
                  ELSE Recv
    /\ UNCHANGED <<regVars, latchVars, shuttingDownLock, sessVars, recvClosed,
                   Output, outputClosed, UpstreamSend, upQ, sigVars, connVars,
                   todo, workerVars, hookCalls, lineVars, hist>>

\* The client connection ended: close(client.Recv), then
\* client.StartShutdown("client_closed").
TransportClose ==
    /\ created
    /\ ~recvClosed
    /\ Input
    /\ recvClosed' = TRUE
    /\ todo' = [todo EXCEPT !["transport"] = StartShutdownOps("client_closed")]
    /\ hist' = [hist EXCEPT !.connectedAtClose = (State = ClientStateConnected)]
    /\ UNCHANGED <<regVars, latchVars, shuttingDownLock, sessVars, Recv,
                   Output, outputClosed, clientSeq, UpstreamSend, upQ, sigVars,
                   connVars, workerVars, hookCalls, lineVars>>

\* handleConn: the signal loop found Signals closed and drained and called
\* conn.Close(); the reader's read fails, it closes Recv and calls
\* StartShutdown("client_closed").
TransportConnClosed ==
    /\ created
    /\ ~recvClosed
    /\ signalsClosed > 0
    /\ Signals = <<>>
    /\ todo["transport"] = <<>>
    /\ recvClosed' = TRUE
    /\ todo' = [todo EXCEPT !["transport"] = StartShutdownOps("client_closed")]
    /\ hist' = [hist EXCEPT !.connectedAtClose = (State = ClientStateConnected)]
    /\ UNCHANGED <<regVars, latchVars, shuttingDownLock, sessVars, Recv,
                   Output, outputClosed, clientSeq, UpstreamSend, upQ, sigVars,
                   connVars, workerVars, hookCalls, lineVars, inputsLeft>>

\* The transport's signal loop takes one signal off Signals.
TransportPollSignal ==
    /\ Len(Signals) > 0
    /\ Signals' = Tail(Signals)
    /\ UNCHANGED <<regVars, latchVars, shuttingDownLock, sessVars, clientQ,
                   UpstreamSend, upQ, sent, connVars, todo, workerVars,
                   hookCalls, lineVars, inputsLeft, hist>>

\* -------------------------------------------------------- the throttler
\* A loop that takes any waiting line next
ThrottlerAnyPosition(q) == 1..Len(q)

\* for msg := range c.in: the positions of the queue the loop may take next.
ThrottlerNext(q) == {1}

RemoveAt(q, i) == SubSeq(q, 1, i - 1) \o SubSeq(q, i + 1, Len(q))

\* ThrottledStringChannel.run: one turn of the loop (the limiter only
\* delays the turn).
ThrottlerRun ==
    /\ Len(Recv) > 0
    /\ Len(Output) < ChanCap
    /\ \E i \in ThrottlerNext(Recv) :
          /\ Output' = Append(Output, Recv[i])
          /\ Recv' = RemoveAt(Recv, i)
    /\ UNCHANGED <<regVars, latchVars, shuttingDownLock, sessVars, recvClosed,
                   outputClosed, clientSeq, UpstreamSend, upQ, sigVars,
                   connVars, todo, workerVars, hookCalls, lineVars, inputsLeft, hist>>

\* ThrottledStringChannel.run: the input is closed and drained, close(c.out).
ThrottlerClose ==
    /\ recvClosed
    /\ Recv = <<>>
    /\ ~outputClosed
    /\ outputClosed' = TRUE
    /\ UNCHANGED <<regVars, latchVars, shuttingDownLock, sessVars, Recv,
                   recvClosed, Output, clientSeq, UpstreamSend, upQ, sigVars,
                   connVars, todo, workerVars, hookCalls, lineVars, inputsLeft, hist>>

\* ------------------------------------------------------- script hooks
\* runnerFuncClientClose: look the session up in the registry, then
\* SendClientSignal("state", "closed", reason) and StartShutdown(reason).
HookClientClose(reason) ==
    /\ hookCalls < MaxHookCalls
    /\ Input
    /\ todo["hook"] = <<>>
    /\ ClientId \in Clients
    /\ hookCalls' = hookCalls + 1
    /\ todo' = [todo EXCEPT !["hook"] =
                  SendClientSignalOps(ClientSignal("state", "closed", reason, 0, "hook"))
                  \o StartShutdownOps(reason)]
    /\ UNCHANGED <<regVars, latchVars, shuttingDownLock, sessVars, clientQ,
                   UpstreamSend, upQ, sigVars, connVars, workerVars, hist,
                   lineVars>>


\* --------------------------------------------- the inbound processor
\* maybeConnectUpstream without its test of UpstreamStarted
maybeConnectUpstreamAgain(nick, username, verified) ==
    /\ username # ""
    /\ nick # ""
    /\ ~(RequiresVerification /\ ~verified)

\* maybeConnectUpstream without its test of the verification
maybeConnectUpstreamUnverified(nick, username, verified) ==
    /\ ~UpstreamStarted
    /\ username # ""
    /\ nick # ""

\* maybeConnectUpstream's condition, on the values the line has just set.
maybeConnectUpstream(nick, username, verified) ==
    /\ ~UpstreamStarted
    /\ username # ""
    /\ nick # ""
    /\ ~(RequiresVerification /\ ~verified)

\* What ProcessLineFromClient leaves behind when nothing matches: the line
\* is returned for upstream and no field changes.
PassThrough ==
    [verified |-> Verified, nick |-> IrcState.Nick,
     username |-> IrcState.Username, desthost |-> DestHost, ops |-> <<>>,
     forward |-> TRUE, connect |-> FALSE, accepted |-> FALSE]

\* ProcessLineFromClient(line), gateway being Config.Gateway: the outcomes
\* the line's parameters (and the captcha verifier) allow.  ops are the
\* calls it makes on the latch,
\* forward says whether a line is returned for upstream, connect whether
\* connectUpstream is called.
ProcessLineFromClient(cmd, gateway) ==
    CASE ~Verified /\ cmd = "CAPTCHA" ->
           { [PassThrough EXCEPT
                !.ops = SendIrcErrorOps("Invalid captcha", "captcha")
                        \o SendClientSignalOps(ClientSignal("state", "closed", "bad_captcha", 0, "captcha"))
                        \o StartShutdownOps("unverifed"),
                !.forward = FALSE],
             [PassThrough EXCEPT
                !.verified = TRUE,
                !.accepted = TRUE,
                !.forward = FALSE,
                !.connect = maybeConnectUpstream(IrcState.Nick, IrcState.Username, TRUE)] }
      [] cmd = "NICK" /\ ~UpstreamStarted ->
           { [PassThrough EXCEPT
                !.nick = v,
                !.connect = maybeConnectUpstream(v, IrcState.Username, Verified)]
             : v \in NickValues }
      [] cmd = "USER" /\ ~UpstreamStarted ->
           { [PassThrough EXCEPT !.forward = FALSE] }
           \cup
           { [PassThrough EXCEPT
                !.username = v,
                !.connect = maybeConnectUpstream(IrcState.Nick, v, Verified)]
             : v \in UserValues }
      [] cmd = "HOST" /\ ~UpstreamStarted ->
           IF gateway = "off"
              THEN { [PassThrough EXCEPT !.forward = FALSE] }
              ELSE { [PassThrough EXCEPT !.forward = FALSE] }
                   \cup
                   { IF addr = ""
                        THEN [PassThrough EXCEPT
                                !.ops = SendIrcErrorOps("Missing host", "host")
                                        \o StartShutdownOps("missing_host"),
                                !.forward = FALSE]
                        ELSE [PassThrough EXCEPT !.desthost = addr, !.forward = FALSE]
                     : addr \in HostValues }
      [] OTHER -> { PassThrough }

\* A whitelist test that lets every address through
isIrcAddressAllowedAlways(addr) == TRUE

\* isIrcAddressAllowed
isIrcAddressAllowed(addr) == addr # "irc.forbidden"

\* findUpstream: the descriptor of one of the configured upstreams.  Its
\* WEBIRC and server passwords are set ("on") or empty ("off"); like a
\* setting of Config each is drawn when the session first reads it.
findUpstream == [WebircPassword |-> "unread", ServerPassword |-> "unread"]

\* configureUpstream: the descriptor built from the client's HOST; it has
\* no server password.
configureUpstream == [WebircPassword |-> "unread", ServerPassword |-> "off"]

\* irc.connection.pre: a hook may halt the connection.
ConnectionPreHook(uc) ==
    { [uc |-> uc, state |-> State,
       ops |-> SendClientSignalOps(ClientSignal("state", "closed", "err_forbidden", 0, "connect"))
               \o StartShutdownOps("err_connecting_upstream")],
      [uc |-> uc, state |-> ClientStateConnecting,
       ops |-> << Op("dial", "", NoSignal, NoLine) >>] }

\* connectUpstream up to the dial: choose the upstream, run the hook, set
\* State to connecting.  Each outcome gives the UpstreamConfig and State it
\* leaves and the statements that follow.
connectUpstream(desthost) ==
    IF desthost = ""
       THEN { [uc |-> UpstreamConfig, state |-> State,
               ops |-> SendIrcErrorOps("The server has not been configured", "connect")
                       \o StartShutdownOps("err_no_upstream")] }
            \cup ConnectionPreHook(findUpstream)
       ELSE IF ~isIrcAddressAllowed(desthost)
               THEN { [uc |-> UpstreamConfig, state |-> State,
                       ops |-> SendIrcErrorOps("Not allowed to connect", "connect")
                               \o SendClientSignalOps(ClientSignal("state", "closed", "err_forbidden", 0, "connect"))
                               \o StartShutdownOps("err_no_upstream")] }
               ELSE ConnectionPreHook(configureUpstream)

\* connectUpstream is not called
NoConnect == [uc |-> UpstreamConfig, state |-> State, ops |-> <<>>]

WorkerIdle == created /\ ~workerQuit /\ todo["worker"] = <<>>

\* handleDataLine, case clientData := <-c.ThrottledRecv.Output: run
\* ProcessLineFromClient (with connectUpstream up to its dial) and leave
\* the rest of the call (the dial, the latch calls, the send on UpstreamSend)
\* as statements to run.
WorkerClientLine ==
    /\ WorkerIdle
    /\ Len(Output) > 0
    /\ LET line == Head(Output) IN
       \E gateway \in (IF line.cmd = "HOST" /\ ~UpstreamStarted
                          THEN Read(Config.Gateway) ELSE {Config.Gateway}) :
       \E r \in ProcessLineFromClient(line.cmd, gateway) :
       \E cu \in (IF r.connect THEN connectUpstream(r.desthost) ELSE {NoConnect}) :
          /\ Output' = Tail(Output)
          /\ Verified' = r.verified
          /\ IrcState' = [Nick |-> r.nick, Username |-> r.username]
          /\ DestHost' = r.desthost
          /\ UpstreamStarted' = (UpstreamStarted \/ r.connect)
          /\ UpstreamConfig' = cu.uc
          /\ State' = cu.state
          /\ Config' = [Config EXCEPT !.Gateway = gateway]
          /\ WorkerContinue(r.ops \o cu.ops
                            \o (IF r.forward
                                   THEN << Op("send", "", NoSignal, line) >>
                                   ELSE <<>>)
                            \o Ret("continue"),
                            UpstreamSend)
          /\ hist' = [hist EXCEPT
                        !.rejected =
                           IF SelectSeq(r.ops \o cu.ops, ClosedSignalOp) # <<>>
                              THEN SelectSeq(r.ops \o cu.ops,
                                             ClosedSignalOp)[1].sig.b
                              ELSE @,
                        !.captchaAccepted = @ \/ r.accepted,
                        !.connectEntered = IF r.connect THEN @ + 1 ELSE @,
                        !.atConnect = IF r.connect
                                         THEN [cmd |-> line.cmd,
                                               started |-> UpstreamStarted,
                                               nick |-> r.nick,
                                               username |-> r.username,
                                               requires |-> RequiresVerification,
                                               verified |-> r.verified]
                                         ELSE @]
    /\ UNCHANGED <<Clients, created, waiterPc, shuttingDown, EndWG,
                   signalsClosed, shuttingDownLock, SeenQuit,
                   RequiresVerification, SentPass, Recv, recvClosed,
                   outputClosed, clientSeq, upQ, sigVars, connVars,
                   hookCalls, lineVars, inputsLeft>>

\* The error string makeUpstreamConnection signals for a failed direct dial
dialErrString(err) ==
    IF typeOfErr(err) # "" THEN ErrPrefix(typeOfErr(err)) ELSE ""

\* The error string makeUpstreamConnection signals for a failed proxy dial
proxyErrString(err) ==
    IF typeOfErr(err) # "" THEN ErrPrefix(typeOfErr(err)) ELSE "err_proxy"

\* makeUpstreamConnection: the stream, or the error string of the failure
\* (direct dial, TLS handshake, proxy dial).
makeUpstreamConnection ==
    { [ok |-> TRUE, err |-> ""] }
    \cup { [ok |-> FALSE, err |-> dialErrString(e)] : e \in DialErrors }
    \cup { [ok |-> FALSE, err |-> "err_tls"] }
    \cup { [ok |-> FALSE, err |-> proxyErrString(e)] : e \in DialErrors }

\* maybeSendPass called before writeWebircLines
RegistrationPreludePassFirst(uc) ==
    (IF uc.ServerPassword = "on" THEN << Line("PASS", 0) >> ELSE <<>>)
    \o (IF uc.WebircPassword = "on" THEN << Line("WEBIRC", 0) >> ELSE <<>>)

\* writeWebircLines and maybeSendPass: what they write to the new stream
\* for the descriptor uc
RegistrationPrelude(uc) ==
    (IF uc.WebircPassword = "on" THEN << Line("WEBIRC", 0) >> ELSE <<>>)
    \o (IF uc.ServerPassword = "on" THEN << Line("PASS", 0) >> ELSE <<>>)

\* connectUpstream from makeUpstreamConnection on.  A failure signals
\* state closed and starts the shutdown; a success sets State to
\* registering, stores the stream, starts readUpstream, writes the WEBIRC
\* and PASS lines and signals state connected.
WorkerDial ==
    /\ HasNext("worker", "dial")
    /\ \E res \in makeUpstreamConnection :
          IF res.ok
             THEN /\ State' = ClientStateRegistering
                  /\ upstream' = "conn"
                  /\ conn' = "open"
                  /\ readerPc' = "reading"
                  /\ \E w \in Read(UpstreamConfig.WebircPassword),
                        p \in Read(UpstreamConfig.ServerPassword) :
                        /\ UpstreamConfig' = [WebircPassword |-> w, ServerPassword |-> p]
                        /\ written' = written \o RegistrationPrelude(UpstreamConfig')
                        /\ SentPass' = (SentPass \/ p = "on")
                  /\ todo' = [todo EXCEPT !["worker"] =
                                SendClientSignalOps(ClientSignal("state", "connected", "", 0, "connect"))
                                \o Rest("worker")]
                  /\ hist' = [hist EXCEPT !.dials = @ + 1]
             ELSE /\ todo' = [todo EXCEPT !["worker"] =
                                SendClientSignalOps(ClientSignal("state", "closed", res.err, 0, "dial"))
                                \o StartShutdownOps("err_connecting_upstream")
                                \o Rest("worker")]
                  /\ hist' = [hist EXCEPT !.dials = @ + 1,
                                          !.dialFailed = TRUE]
                  /\ UNCHANGED <<State, connVars, SentPass, UpstreamConfig>>
    /\ UNCHANGED <<regVars, shuttingDown, EndWG, signalsClosed,
                   shuttingDownLock, SeenQuit, UpstreamStarted,
                   RequiresVerification, Verified, IrcState, DestHost,
                   clientQ, UpstreamSend, upQ, sigVars,
                   workerVars, hookCalls, lineVars, inputsLeft>>

\* --------------------------------------------- lines going upstream
\* strings.ToUpper on one character of the letters the intercepted
\* commands are made of
ToUpper(ch) ==
    CASE ch = "q" -> "Q"
      [] ch = "u" -> "U"
      [] ch = "i" -> "I"
      [] ch = "t" -> "T"
      [] ch = "b" -> "B"
      [] ch = "p" -> "P"
      [] ch = "a" -> "A"
      [] ch = "s" -> "S"
      [] ch = "h" -> "H"
      [] ch = "o" -> "O"
      [] ch = "e" -> "E"
      [] ch = "n" -> "N"
      [] ch = "c" -> "C"
      [] ch = "d" -> "D"
      [] ch = "g" -> "G"
      [] OTHER -> ch

\* strings.HasPrefix(strings.ToUpper(data), prefix), data and prefix as
\* sequences of characters
HasUpperPrefix(data, prefix) ==
    /\ Len(data) >= Len(prefix)
    /\ \A i \in 1..Len(prefix) : ToUpper(data[i]) = prefix[i]

\* The forms of a client's QUIT line: bare or with a message, upper or
\* lower case.
QuitLines ==
    { <<"Q", "U", "I", "T">>,
      <<"q", "u", "i", "t">>,
      <<"Q", "U", "I", "T", " ", ":", "b">>,
      <<"q", "u", "i", "t", " ", ":", "b">>,
      <<"Q", "u", "i", "t", " ", "b">> }

\* processLineToUpstream's test for a QUIT from the client
IsQuitLine(data) == HasUpperPrefix(data, <<"Q", "U", "I", "T", " ">>)

\* processLineToUpstream(data): the outcomes the line's text and the
\* irc.line hook allow.  seenQuit is the SeenQuit it leaves, write says
\* whether it reaches client.upstream.Write.
processLineToUpstream(cmd) ==
    CASE cmd = "PASS" /\ SentPass ->
           { [seenQuit |-> SeenQuit, write |-> FALSE] }
      [] cmd = "QUIT" ->
           \* "QUIT <message>" sets SeenQuit, a bare "QUIT" does not
           { [seenQuit |-> SeenQuit \/ IsQuitLine(data), write |-> w] :
                data \in QuitLines, w \in BOOLEAN }
      [] cmd = "QUIT_SYNTHETIC" ->
           { [seenQuit |-> TRUE, write |-> w] : w \in BOOLEAN }
      [] OTHER ->
           { [seenQuit |-> SeenQuit, write |-> w] : w \in BOOLEAN }

\* client.upstream.Write: on a stream that is open the bytes are written
UpstreamWrite(line) ==
    IF upstream # "nil" /\ conn = "open" THEN Append(written, line) ELSE written

\* handleDataLine, case line := <-upstreamSend
WorkerUpstreamSend ==
    /\ WorkerIdle
    /\ upstreamSendCase
    /\ Len(UpstreamSend) > 0
    /\ \E r \in processLineToUpstream(Head(UpstreamSend).cmd) :
          /\ SeenQuit' = r.seenQuit
          /\ written' = IF r.write THEN UpstreamWrite(Head(UpstreamSend)) ELSE written
    /\ WorkerContinue(Ret("continue"), Tail(UpstreamSend))
    /\ UNCHANGED <<regVars, latchVars, shuttingDownLock, UpstreamStarted,
                   RequiresVerification, Verified, SentPass, IrcState,
                   DestHost, UpstreamConfig, clientQ, upQ, sigVars, upstream,
                   conn, readerPc, hookCalls, lineVars, inputsLeft, hist>>

\* handleDataLine, case <-c.ThrottledRecv.Output with !ok: write the
\* synthetic QUIT when the condition holds, then StartShutdown, close the
\* upstream stream and leave the loop.
WorkerRecvClosed ==
    /\ WorkerIdle
    /\ Output = <<>>
    /\ outputClosed
    /\ \E sendQuit \in Read(Config.SendQuitOnClientClose) :
          /\ Config' = [Config EXCEPT !.SendQuitOnClientClose = sendQuit]
          /\ IF ~SeenQuit /\ sendQuit = "on" /\ State = ClientStateEnding
                THEN \E r \in processLineToUpstream("QUIT_SYNTHETIC") :
                        /\ SeenQuit' = r.seenQuit
                        /\ written' = IF r.write
                                         THEN UpstreamWrite(Line("QUIT_SYNTHETIC", 0))
                                         ELSE written
                        /\ UNCHANGED hist
                ELSE /\ UNCHANGED <<SeenQuit, written>>
                     /\ hist' = [hist EXCEPT !.quitSkipped =
                                    ~SeenQuit /\ sendQuit = "on"
                                    /\ upstream # "nil" /\ conn = "open"]
    /\ todo' = [todo EXCEPT !["worker"] =
                  StartShutdownOps("client_closed")
                  \o << Op("closeup", "", NoSignal, NoLine) >>
                  \o Ret("quit")]
    /\ UNCHANGED <<Clients, created, waiterPc, latchVars, shuttingDownLock,
                   UpstreamStarted, RequiresVerification, Verified, SentPass,
                   IrcState, DestHost, UpstreamConfig, clientQ, UpstreamSend,
                   upQ, sigVars, upstream, conn, readerPc, workerVars,
                   hookCalls, lineVars, inputsLeft>>

\* if c.upstream != nil { c.upstream.Close() }
WorkerCloseUpstream ==
    /\ HasNext("worker", "closeup")
    /\ conn' = IF upstream # "nil" THEN "closed" ELSE conn
    /\ WorkerContinue(Rest("worker"), UpstreamSend)
    /\ UNCHANGED <<regVars, latchVars, shuttingDownLock, sessVars, clientQ,
                   upQ, sigVars, upstream, readerPc, written, hookCalls, lineVars,
                   inputsLeft, hist>>

\* ------------------------------------------- lines coming from upstream
\* readUpstream's goroutine read one line: client.UpstreamRecv <- data
\* (blocks while the queue is full).
UpstreamLine(cmd) ==
    /\ readerPc = "reading"
    /\ conn = "open"
    /\ upstreamSeq < MaxUpstreamLines
    /\ Input
    /\ Len(UpstreamRecv) < ChanCap
    /\ upstreamSeq' = upstreamSeq + 1
    /\ UpstreamRecv' = Append(UpstreamRecv, Line(cmd, upstreamSeq + 1))
    /\ UNCHANGED <<regVars, latchVars, shuttingDownLock, sessVars, clientQ,
                   UpstreamSend, upstreamRecvClosed, sigVars, connVars, todo,
                   workerVars, hookCalls, lineVars, hist>>

\* The upstream server ends the stream.
UpstreamClose ==
    /\ conn = "open"
    /\ Input
    /\ conn' = "closed"
    /\ UNCHANGED <<regVars, latchVars, shuttingDownLock, sessVars, clientQ,
                   UpstreamSend, upQ, sigVars, upstream, readerPc, written,
                   todo, workerVars, hookCalls, lineVars, hist>>

\* readUpstream's goroutine: the read failed, close(client.UpstreamRecv)
\* and client.upstream.Close().
ReaderEnd ==
    /\ readerPc = "reading"
    /\ conn = "closed"
    /\ upstreamRecvClosed' = TRUE
    /\ readerPc' = "ending"
    /\ UNCHANGED <<regVars, latchVars, shuttingDownLock, sessVars, clientQ,
                   UpstreamSend, UpstreamRecv, upstreamSeq, sigVars, upstream,
                   conn, written, todo, workerVars, hookCalls, lineVars, inputsLeft,
                   hist>>

\* readUpstream's goroutine: client.upstream = nil
ReaderClear ==
    /\ readerPc = "ending"
    /\ upstream' = "nil"
    /\ readerPc' = "done"
    /\ UNCHANGED <<regVars, latchVars, shuttingDownLock, sessVars, clientQ,
                   UpstreamSend, upQ, sigVars, conn, written, todo,
                   workerVars, hookCalls, lineVars, inputsLeft, hist>>

\* ProcessLineFromUpstream: the State a line leaves (001 sets connected)
ProcessLineFromUpstreamState(cmd) ==
    IF cmd = "001" THEN ClientStateConnected ELSE State

\* ProcessLineFromUpstream: the nick a line leaves (001 carries it)
ProcessLineFromUpstreamNick(cmd) ==
    IF cmd = "001" THEN "alice" ELSE IrcState.Nick

\* handleDataLine, case upstreamData := <-c.UpstreamRecv: unless the
\* irc.line hook halts, ProcessLineFromUpstream and a data signal.
WorkerUpstreamLine ==
    /\ WorkerIdle
    /\ Len(UpstreamRecv) > 0
    /\ UpstreamRecv' = Tail(UpstreamRecv)
    /\ LET line == Head(UpstreamRecv) IN
       \E halt \in BOOLEAN :
          IF halt
             THEN /\ WorkerContinue(Ret("continue"), UpstreamSend)
                  /\ hist' = [hist EXCEPT !.upstreamHalted = @ + 1]
                  /\ UNCHANGED <<State, IrcState>>
             ELSE /\ State' = ProcessLineFromUpstreamState(line.cmd)
                  /\ IrcState' = [IrcState EXCEPT !.Nick = ProcessLineFromUpstreamNick(line.cmd)]
                  /\ WorkerContinue(
                        SendClientSignalOps(ClientSignal("data", line.cmd, "", line.n, "upstream"))
                        \o Ret("continue"), UpstreamSend)
                  /\ hist' = [hist EXCEPT !.everConnected =
                                 @ \/ State' = ClientStateConnected]
    /\ UNCHANGED <<regVars, shuttingDown, EndWG, signalsClosed,
                   shuttingDownLock, SeenQuit, UpstreamStarted,
                   RequiresVerification, Verified, SentPass, DestHost,
                   UpstreamConfig, clientQ, upstreamRecvClosed,
                   upstreamSeq, sigVars, connVars, hookCalls, lineVars, inputsLeft>>

\* A receive that reports the close while lines are still buffered
UpstreamRecvCloseFirst == TRUE

\* A receive from the closed UpstreamRecv reports !ok only once the lines
\* buffered in it have been received.
UpstreamRecvDrained == UpstreamRecv = <<>>

\* handleDataLine, case <-c.UpstreamRecv with !ok: signal state closed,
\* StartShutdown("upstream_closed") and leave the loop.
WorkerUpstreamClosed ==
    /\ WorkerIdle
    /\ UpstreamRecvDrained
    /\ upstreamRecvClosed
    /\ todo' = [todo EXCEPT !["worker"] =
                  SendClientSignalOps(ClientSignal("state", "closed", "", 0, "upstream_closed"))
                  \o StartShutdownOps("upstream_closed")
                  \o Ret("quit")]
    /\ hist' = [hist EXCEPT !.upstreamEndSeen = TRUE]
    /\ UNCHANGED <<regVars, latchVars, shuttingDownLock, sessVars, clientQ,
                   UpstreamSend, upQ, sigVars, connVars, workerVars,
                   hookCalls, lineVars, inputsLeft>>

\* ------------------------------------------------------ specification
Next ==
    \/ NewClient
    \/ RegistryRemove
    \/ \E t \in Tasks : SendClientSignalWait(t)
    \/ \E t \in Tasks : StartShutdown(t)
    \/ \E t \in Tasks : SendClientSignal(t)
    \/ \E cmd \in ClientCmds : TransportDeliver(cmd)
    \/ TransportClose
    \/ TransportConnClosed
    \/ TransportPollSignal
    \/ ThrottlerRun
    \/ ThrottlerClose
    \/ \E reason \in HookReasons : HookClientClose(reason)
    \/ WorkerClientLine
    \/ WorkerDial
    \/ WorkerUpstreamSend
    \/ WorkerRecvClosed
    \/ WorkerCloseUpstream
    \/ UpstreamLine("001")
    \/ UpstreamLine("PING")
    \/ UpstreamClose
    \/ ReaderEnd
    \/ ReaderClear
    \/ WorkerUpstreamLine
    \/ WorkerUpstreamClosed

Spec == Init /\ [][Next]_vars

LongSpec == LongInit /\ [][Next]_vars

\* Scheduling: every goroutine that can take its next step does so in the
\* end.  A caller waiting for shuttingDownLock gets it (sync.Mutex hands
\* the lock to a waiter that has waited long), the transport's signal loop
\* keeps receiving from Signals until it is closed, and the goroutine
\* NewClient starts runs once EndWG.Wait() returns.
Fairness ==
    /\ WF_vars(RegistryRemove)
    /\ WF_vars(TransportPollSignal)
    /\ \A t \in Tasks : WF_vars(StartShutdown(t))
    /\ \A t \in Tasks : WF_vars(SendClientSignal(t))

FairSpec == Init /\ [][Next]_vars /\ Fairness

\* Scheduling of the session's own goroutines: the selector worker, the
\* throttler, the upstream reader and the transport's reader each take
\* their next step when it stays possible.  What the client, the upstream
\* server and the scripts do is left free.
TaskFairness ==
    /\ \A t \in Tasks : WF_vars(SendClientSignalWait(t))
    /\ WF_vars(TransportConnClosed)
    /\ WF_vars(ThrottlerRun)
    /\ WF_vars(ThrottlerClose)
    /\ WF_vars(WorkerClientLine)
    /\ WF_vars(WorkerDial)
    /\ WF_vars(WorkerUpstreamSend)
    /\ WF_vars(WorkerRecvClosed)
    /\ WF_vars(WorkerCloseUpstream)
    /\ WF_vars(WorkerUpstreamLine)
    /\ WF_vars(WorkerUpstreamClosed)
    /\ WF_vars(ReaderEnd)
    /\ WF_vars(ReaderClear)

EndSpec == LongInit /\ [][Next]_vars /\ Fairness /\ TaskFairness

\* ------------------------------------------------- line processing
\* ProcessLineFromUpstream and ProcessLineFromClient, applied to scripts of
\* lines.  A script is drawn at the start; each step hands its next line
\* to the session it is for.  Lines travel in parsed form: tags, prefix
\* nick, command and parameters.
Sessions == {"A", "B"}

\* A line irc.ParseLine accepts
IrcLine(tags, prefix, cmd, params) ==
    [parses |-> TRUE, tags |-> tags, prefix |-> prefix, cmd |-> cmd,
     params |-> params]

\* A line irc.ParseLine rejects (no command), passed on as it came
BadLine ==
    [parses |-> FALSE, tags |-> {}, prefix |-> "", cmd |-> "",
     params |-> <<>>]

\* One entry of a script: the session the line is for, where it comes from
\* ("upstream" or "client"), whether the irc.line hook halts it, the line.
Entry(to, dir, halt, line) ==
    [to |-> to, dir |-> dir, halt |-> halt, line |-> line]

\* The fields of a session the line processors use: a session that has
\* sent NICK and has an upstream.  NewClient leaves Features.ExtJwt on and
\* Features.Messagetags off.  Channels holds the keys of IrcState.Channels,
\* Modes the pairs <<key, mode>> of the channels' Modes maps, Joined the
\* pairs <<key, time>> of their Joined fields; now is the reading of the
\* clock (the number of the line being handled).  Hostname is
\* UpstreamConfig.Hostname.
NewSession(nick) ==
    [State |-> ClientStateRegistering,
     Nick |-> nick,
     Hostname |-> "irc.a",
     Channels |-> {},
     Modes |-> {},
     Joined |-> {},
     now |-> 0,
     ISupport |-> [Received |-> FALSE, Injected |-> FALSE, Tags |-> {},
                   tokens |-> {}],
     Features |-> [Messagetags |-> FALSE, ExtJwt |-> TRUE],
     RequestedMessageTagsCap |-> "",
     down |-> <<>>,
     up |-> <<>>]

\* A data signal to the client: n is the script entry that caused it, made
\* says the gateway composed the line itself.
Down(n, made, line) == [n |-> n, made |-> made, line |-> line]

\* ISupport.addToken: the key of a token pair, in upper case
TokenKey(tokenPair) ==
    CASE tokenPair = "EXTJWT=1" -> "EXTJWT"
      [] tokenPair = "extjwt" -> "EXTJWT"
      [] tokenPair = "CHANTYPES=#" -> "CHANTYPES"
      [] OTHER -> tokenPair

\* strings.ToLower on a channel name
ChanLower(name) ==
    CASE name = "#A" -> "#a"
      [] name = "#B" -> "#b"
      [] OTHER -> name

\* An injection that does not look at ISupport.Injected
InjectDueAgain(c, m) == c.ISupport.Received /\ m.cmd # "005"

\* ProcessLineFromUpstream's test for composing the synthetic 005
InjectDue(c, m) ==
    c.ISupport.Received /\ ~c.ISupport.Injected /\ m.cmd # "005"

\* The synthetic 005: the nick, EXTJWT=1, the closing text, and the time
\* tag of the server's 005 when it had one.
Synthetic005(c) ==
    IrcLine({t \in c.ISupport.Tags : t[1] = "time"}, "srv", "005",
            <<c.Nick, "EXTJWT=1", "are supported by this server">>)

\* ProcessLineFromUpstream up to the channel tracking: NICK, 001, 005 and
\* the synthetic 005.  m.Params[1 : pLen-1] panics for a 005 with a single
\* parameter; the panic is recovered in handleDataLine, and what was
\* assigned before it stays.
UpstreamNumerics(c, m) ==
    LET pLen == Len(m.params)
        c1 == IF pLen > 0 /\ m.cmd = "NICK" /\ m.prefix = c.Nick
                 THEN [c EXCEPT !.Nick = m.params[1]]
                 ELSE c
        c2 == IF pLen > 0 /\ m.cmd = "001"
                 THEN [c1 EXCEPT !.Nick = m.params[1],
                                 !.State = ClientStateConnected]
                 ELSE c1
        panics == m.cmd = "005" /\ pLen = 1
        c3 == IF pLen > 1 /\ m.cmd = "005"
                 THEN [c2 EXCEPT
                         !.ISupport.Received = TRUE,
                         !.ISupport.Tags = m.tags,
                         !.ISupport.tokens =
                             @ \cup {TokenKey(m.params[i]) : i \in 2..(pLen - 1)}]
                 ELSE c2
        inject == InjectDue(c3, m)
        hasToken == "EXTJWT" \in c3.ISupport.tokens
        c4 == IF inject
                 THEN [c3 EXCEPT
                         !.ISupport.Injected = TRUE,
                         !.ISupport.tokens = @ \cup {"EXTJWT"},
                         !.Features.ExtJwt = IF hasToken THEN FALSE ELSE @]
                 ELSE c3
    IN  IF panics
           THEN [c |-> c2, panics |-> TRUE, signals |-> <<>>]
           ELSE [c |-> c4, panics |-> FALSE,
                 signals |-> IF inject /\ ~hasToken
                                THEN << Synthetic005(c3) >>
                                ELSE <<>>]

\* c.IrcState.SetChannel(irc.NewStateChannel(name)): a channel with no
\* modes, joined now, under the lower-case key
SetNewStateChannel(c, name) ==
    [c EXCEPT !.Channels = @ \cup {ChanLower(name)},
              !.Modes = {x \in @ : x[1] # ChanLower(name)},
              !.Joined = {x \in @ : x[1] # ChanLower(name)}
                         \cup {<<ChanLower(name), c.now>>}]

\* ProcessLineFromUpstream, channel tracking: JOIN, PART and QUIT whose
\* prefix is the session's nick.
UpstreamChannels(c, m) ==
    LET pLen == Len(m.params)
        own == pLen > 0 /\ m.prefix = c.Nick
        c1 == IF own /\ m.cmd = "JOIN"
                 THEN SetNewStateChannel(c, m.params[1])
                 ELSE c
        c2 == IF own /\ m.cmd = "PART"
                 THEN [c1 EXCEPT
                         !.Channels = @ \ {ChanLower(m.params[1])},
                         !.Modes = {x \in @ : x[1] # ChanLower(m.params[1])},
                         !.Joined = {x \in @ : x[1] # ChanLower(m.params[1])}]
                 ELSE c1
    IN  IF own /\ m.cmd = "QUIT"
           THEN [c2 EXCEPT !.Channels = {}, !.Modes = {}, !.Joined = {}]
           ELSE c2

\* strings.HasPrefix(name, "#")
IsChannelName(name) == name \in {"#a", "#A", "#b", "#B"}

\* strings.EqualFold on nicks, by way of the lower-case form
NickLower(nick) ==
    CASE nick = "Alice" -> "alice"
      [] nick = "Bob" -> "bob"
      [] OTHER -> nick

\* The modes recorded for the channel under key
ModesOf(c, key) == {x[2] : x \in {y \in c.Modes : y[1] = key}}

\* m.GetParam(idx, ""), idx counted from 0 as in the source
GetParam(m, idx) == IF idx < Len(m.params) THEN m.params[idx + 1] ELSE ""

\* ProcessLineFromUpstream, the loop over the mode string from character i
\* on: the modes the channel is left with, and whether channel.Modes was
\* touched (a mode whose parameter is the session's nick)
RECURSIVE ApplyModes(_, _, _, _, _, _, _)
ApplyModes(modes, i, adding, paramIdx, m, nick, cur) ==
    IF i > Len(modes)
       THEN [modes |-> cur, touched |-> FALSE]
    ELSE IF modes[i] = "+"
       THEN ApplyModes(modes, i + 1, TRUE, paramIdx, m, nick, cur)
    ELSE IF modes[i] = "-"
       THEN ApplyModes(modes, i + 1, FALSE, paramIdx, m, nick, cur)
    ELSE IF NickLower(GetParam(m, paramIdx + 1)) = NickLower(nick)
       THEN [ApplyModes(modes, i + 1, adding, paramIdx + 1, m, nick,
                        IF adding THEN cur \cup {modes[i]}
                                  ELSE cur \ {modes[i]})
                EXCEPT !.touched = TRUE]
    ELSE ApplyModes(modes, i + 1, adding, paramIdx + 1, m, nick, cur)

\* ProcessLineFromUpstream, MODE on a channel, after the lookup: c is the
\* session with the channel the loop works on (tracked says there is one),
\* r what the loop does.  Touching the modes of no channel panics.
UpstreamModeSet(c, key, tracked, r) ==
    IF tracked
       THEN [c |-> [c EXCEPT !.Modes = {x \in @ : x[1] # key}
                                       \cup {<<key, x>> : x \in r.modes}],
             panics |-> FALSE]
       ELSE [c |-> c, panics |-> r.touched]

\* ProcessLineFromUpstream, MODE on a channel: a channel that GetChannel
\* finds (channel != nil) is replaced by a new one before the loop.
UpstreamModeChannel(c, c1, m, key, tracked) ==
    UpstreamModeSet(c1, key, tracked,
                    ApplyModes(IF Len(m.params) > 1 THEN m.params[2] ELSE <<>>,
                               1, FALSE, 1, m, c.Nick, ModesOf(c1, key)))

\* ProcessLineFromUpstream, the MODE handling
UpstreamMode(c, m) ==
    IF Len(m.params) > 0 /\ m.cmd = "MODE" /\ IsChannelName(m.params[1])
       THEN UpstreamModeChannel(
                c,
                IF ChanLower(m.params[1]) \in c.Channels
                   THEN SetNewStateChannel(c, m.params[1])
                   ELSE c,
                m, ChanLower(m.params[1]),
                ChanLower(m.params[1]) \in c.Channels)
       ELSE [c |-> c, panics |-> FALSE]

\* len(k) > 0 && k[0] == '+': the tag's key starts with "+"
ClientTag(t) == t[1] \in {"+x", "+y"}

\* messageTags.CanMessageContainClientTags(m): PRIVMSG, NOTICE and TAGMSG
CanMessageContainClientTags(m) ==
    m.parses /\ m.cmd \in {"PRIVMSG", "NOTICE", "TAGMSG"}

\* The key messageTags files a message under: the sender's nick, the
\* command, the target and the text.
Fingerprint(nick, m) == <<nick, m.cmd, m.params>>

\* messageTags.AddTagsFromMessage(c, nick, m): the store after the
\* "+"-prefixed tags of m are recorded (nothing when m has none).
AddTagsFromMessage(store, nick, m) ==
    LET plus == {t \in m.tags : ClientTag(t)} IN
    IF plus = {}
       THEN store
       ELSE {x \in store : x[1] # Fingerprint(nick, m)}
            \cup {<<Fingerprint(nick, m), plus>>}

\* messageTags.GetTagsFromMessage(c, nick, m): the tags recorded for m, the
\* empty set when there are none.
GetTagsFromMessage(store, nick, m) ==
    IF \E x \in store : x[1] = Fingerprint(nick, m)
       THEN (CHOOSE x \in store : x[1] = Fingerprint(nick, m))[2]
       ELSE {}

\* A replay that puts no tag on the line
UpstreamTagsNone(c, m) == m

\* ProcessLineFromUpstream, the end: with Features.Messagetags on, the tags
\* recorded for a taggable message are put on it (m.Tags[k] = v).
UpstreamTags(c, m) ==
    LET found == GetTagsFromMessage(messageTags, m.prefix, m) IN
    IF c.Features.Messagetags /\ CanMessageContainClientTags(m) /\ found # {}
       THEN [m EXCEPT !.tags =
               {t \in @ : \A f \in found : f[1] # t[1]} \cup found]
       ELSE m

\* strings.ToLower on a capability token
CapLower(tok) == IF tok = "Message-Tags" THEN "message-tags" ELSE tok

\* strings.Contains(cap, "message-tags")
NamesMessageTags(tok) == tok \in {"message-tags", "draft/message-tags-0.2"}

\* A capability list, the tokens between its spaces, names message-tags
ListNamesMessageTags(caps) ==
    \E i \in 1..Len(caps) : NamesMessageTags(CapLower(caps[i]))

\* ProcessLineFromUpstream, CAP LS with the capability list caps: a server
\* that lists message-tags switches the emulation off; with it on, the
\* token is added to the last line of the listing.
UpstreamCapLs(c, m, caps) ==
    IF ListNamesMessageTags(caps)
       THEN [c |-> [c EXCEPT !.Features.Messagetags = FALSE], panics |-> FALSE,
             line |-> m]
       ELSE [c |-> c, panics |-> FALSE,
             line |-> IF c.Features.Messagetags /\ m.params[3] # <<"*">>
                         THEN [m EXCEPT !.params[3] = Append(@, "message-tags")]
                         ELSE m]

\* ProcessLineFromUpstream, CAP ACK while a token is remembered: it is added
\* to the third parameter, which panics when the line has none.
UpstreamCapAck(c, m) ==
    IF Len(m.params) >= 3 /\ ListNamesMessageTags(m.params[3])
       THEN [c |-> c, panics |-> FALSE, line |-> m]
    ELSE IF Len(m.params) < 3
       THEN [c |-> c, panics |-> TRUE, line |-> m]
    ELSE [c |-> [c EXCEPT !.RequestedMessageTagsCap = ""], panics |-> FALSE,
          line |-> [m EXCEPT !.params[3] =
                       Append(@, c.RequestedMessageTagsCap)]]

\* ProcessLineFromUpstream, the CAP ACK handling on what the CAP LS handling
\* left
UpstreamCapAfterLs(r) ==
    IF /\ r.c.RequestedMessageTagsCap # ""
       /\ r.line.cmd = "CAP"
       /\ Len(r.line.params) >= 2
       /\ r.line.params[2] = "ACK"
       THEN UpstreamCapAck(r.c, r.line)
       ELSE r

\* ProcessLineFromUpstream, the CAP handling: the session it leaves and the
\* line as rewritten.  The capability lists are the third parameter, or the
\* fourth behind a "*" of a listing that goes on.
UpstreamCap(c, m) ==
    UpstreamCapAfterLs(
        IF Len(m.params) >= 3 /\ m.cmd = "CAP" /\ m.params[2] = "LS"
           THEN UpstreamCapLs(c, m,
                    IF Len(m.params) >= 4 /\ m.params[3] = <<"*">>
                       THEN m.params[4] ELSE m.params[3])
           ELSE [c |-> c, panics |-> FALSE, line |-> m])

\* ProcessLineFromUpstream from the CAP handling to the end, rc what the
\* CAP handling left
UpstreamCapTags(rc, signals) ==
    [c |-> rc.c, panics |-> rc.panics, signals |-> signals,
     data |-> IF rc.panics THEN rc.line ELSE UpstreamTags(rc.c, rc.line)]

\* ProcessLineFromUpstream from the MODE handling on, rm what the MODE
\* handling left
UpstreamAfterMode(rm, m, signals) ==
    IF rm.panics
       THEN [c |-> rm.c, panics |-> TRUE, signals |-> signals, data |-> m]
       ELSE UpstreamCapTags(UpstreamCap(rm.c, m), signals)

\* ProcessLineFromUpstream(data) on session c: the session it leaves, the
\* signals it sends itself, and the line it returns.  A line that does not
\* parse is returned as it came.  (The account numerics 900 and 901 touch
\* no field kept here.)
ProcessLineFromUpstream(c, m) ==
    IF ~m.parses
       THEN [c |-> c, panics |-> FALSE, signals |-> <<>>, data |-> m]
       ELSE LET r == UpstreamNumerics(c, m) IN
            IF r.panics
               THEN [c |-> r.c, panics |-> TRUE, signals |-> <<>>, data |-> m]
               ELSE UpstreamAfterMode(UpstreamMode(UpstreamChannels(r.c, m), m),
                                      m, r.signals)

\* handleLineFromUpstream on entry n of the script: nothing when the hook
\* halts the line; else ProcessLineFromUpstream, its signals, and the line
\* as a data signal (not after a panic).
handleLineFromUpstream(c, e, n) ==
    IF e.halt
       THEN c
       ELSE LET r == ProcessLineFromUpstream([c EXCEPT !.now = n], e.line) IN
            [r.c EXCEPT !.down =
                @ \o [i \in 1..Len(r.signals) |-> Down(n, TRUE, r.signals[i])]
                  \o (IF r.panics THEN <<>> ELSE << Down(n, FALSE, r.data) >>)]

\* The next line of the script comes from upstream.
UpstreamStep ==
    /\ pos < Len(script)
    /\ script[pos + 1].dir = "upstream"
    /\ pos' = pos + 1
    /\ session' = [session EXCEPT ![script[pos + 1].to] =
                      handleLineFromUpstream(@, script[pos + 1], pos + 1)]
    /\ \E consume \in BOOLEAN :
          messageTags' =
             IF /\ consume
                /\ ~script[pos + 1].halt
                /\ session[script[pos + 1].to].Features.Messagetags
                /\ CanMessageContainClientTags(script[pos + 1].line)
                THEN {x \in messageTags :
                        x[1] # Fingerprint(script[pos + 1].line.prefix,
                                           script[pos + 1].line)}
                ELSE messageTags
    /\ UNCHANGED <<clientVars, script, args, result>>

\* containsOneOf(cap, capsThatEnableMessageTags)
EnablesMessageTags(tok) ==
    NamesMessageTags(tok) \/ tok \in {"account-tag", "server-time", "batch"}

\* A line written to the upstream stream: n is the script entry it is for.
Up(n, line) == [n |-> n, line |-> line]

\* ProcessLineFromClient, CAP REQ while Features.Messagetags is on.  The
\* second parameter is the list of capability tokens strings.Split makes of
\* it ("" when the parameter is missing or has a trailing space).  forward
\* says the line goes on to upstream.
ClientCapReq(c, m) ==
    LET raw == IF Len(m.params) > 1 THEN m.params[2] ELSE <<"">>
        caps == [i \in 1..Len(raw) |-> CapLower(raw[i])]
        named == {i \in 1..Len(caps) : NamesMessageTags(caps[i])}
        last == caps[CHOOSE i \in named : \A j \in named : j <= i]
        newCaps == SelectSeq(caps, LAMBDA t : ~NamesMessageTags(t))
    IN  IF named # {}
           THEN IF newCaps = <<>>
                   THEN [c |-> [c EXCEPT !.RequestedMessageTagsCap = last],
                         signals |-> << IrcLine({}, "", "CAP",
                                                <<"*", "ACK", <<last>>>>) >>,
                         forward |-> FALSE, line |-> m]
                   ELSE [c |-> [c EXCEPT !.RequestedMessageTagsCap = last],
                         signals |-> <<>>, forward |-> TRUE,
                         line |-> [m EXCEPT !.params[2] = newCaps]]
           ELSE [c |-> IF \E i \in 1..Len(caps) : EnablesMessageTags(caps[i])
                          THEN c
                          ELSE [c EXCEPT !.Features.Messagetags = FALSE],
                 signals |-> <<>>, forward |-> TRUE, line |-> m]

\* An EXTJWT test that never takes the command
ExtJwtNever(c, m) == FALSE

\* c.Features.ExtJwt && strings.ToUpper(message.Command) == "EXTJWT"
ExtJwtTaken(c, m) == c.Features.ExtJwt /\ m.cmd = "EXTJWT"

\* ProcessLineFromClient, EXTJWT: 403 for a channel the session does not
\* track, FAIL for a service, else the token (a signed token is longer
\* than MAX_EXTJWT_SIZE and goes out in two lines).  Nothing goes
\* upstream.
ClientExtJwt(c, m) ==
    LET tokenTarget == IF Len(m.params) > 0 THEN m.params[1] ELSE ""
        tokenService == IF Len(m.params) > 1 THEN m.params[2] ELSE ""
        target == IF tokenTarget \in {"", "*"} THEN "*" ELSE tokenTarget
    IN  CASE target # "*" /\ ChanLower(tokenTarget) \notin c.Channels ->
               << IrcLine({}, "srv", "403",
                          <<c.Nick, tokenTarget, "No such channel">>) >>
          [] tokenService \notin {"", "*"} ->
               << IrcLine({}, "srv", "FAIL",
                          <<"EXTJWT", "NO_SUCH_SERVICE", "No such service">>) >>
          [] OTHER ->
               << IrcLine({}, "srv", "EXTJWT", <<target, "*", "*", "part">>),
                  IrcLine({}, "srv", "EXTJWT", <<target, "*", "rest">>) >>

\* c.Features.Messagetags && message.Command == "TAGMSG"
TagMsgTaken(c, m) == m.parses /\ c.Features.Messagetags /\ m.cmd = "TAGMSG"

\* strings.ToLower on an upstream hostname
HostLower(name) == IF name = "IRC.A" THEN "irc.a" ELSE name

\* ProcessLineFromClient, TAGMSG: the test the loop over Gateway.Clients
\* makes of a session cur for a message of session c to target
TagMsgReaches(c, cur, target) ==
    /\ HostLower(cur.Hostname) = HostLower(c.Hostname)
    /\ \/ NickLower(target) = NickLower(cur.Nick)
       \/ ChanLower(target) \in cur.Channels

\* ProcessLineFromClient, TAGMSG of session from (entry n of the script):
\* the sessions after the loop over Gateway.Clients, which signals the
\* message, the sender's nick as its prefix, to every session it reaches.
TagMsgFanout(ss, from, m, n) ==
    IF Len(m.params) = 0
       THEN ss
       ELSE [x \in DOMAIN ss |->
               IF TagMsgReaches(ss[from], ss[x], m.params[1])
                  THEN [ss[x] EXCEPT !.down =
                          Append(@, Down(n, TRUE,
                                         [m EXCEPT !.prefix = ss[from].Nick]))]
                  ELSE ss[x]]

\* ProcessLineFromClient from the CAP handling on, for a session whose
\* upstream has started (the scripts hold no NICK, USER, ENCODING, HOST or
\* CAPTCHA line from the client; the signals of a TAGMSG are in
\* TagMsgFanout): the session and the store it leaves, the signals it
\* sends, and the line it returns, if any.
ClientFeatures(c, m) ==
    IF ~m.parses
       THEN [c |-> c, store |-> messageTags, signals |-> <<>>,
             forward |-> TRUE, line |-> m]
       ELSE
    LET c1 == IF m.cmd = "CAP" /\ Len(m.params) > 0 /\ m.params[1] = "LS"
                 THEN [c EXCEPT !.Features.Messagetags = TRUE]
                 ELSE c
        r == IF /\ c1.Features.Messagetags
                /\ m.cmd = "CAP"
                /\ Len(m.params) > 0
                /\ m.params[1] = "REQ"
                THEN ClientCapReq(c1, m)
                ELSE [c |-> c1, signals |-> <<>>, forward |-> TRUE, line |-> m]
        tagged == r.c.Features.Messagetags /\ CanMessageContainClientTags(r.line)
        line == IF tagged
                   THEN [r.line EXCEPT !.tags = {t \in @ : ~ClientTag(t)}]
                   ELSE r.line
        store == IF tagged
                    THEN AddTagsFromMessage(messageTags, r.c.Nick, r.line)
                    ELSE messageTags
    IN  IF ~r.forward
           THEN [c |-> r.c, store |-> messageTags, signals |-> r.signals,
                 forward |-> FALSE, line |-> m]
           ELSE IF TagMsgTaken(r.c, m)
                   THEN [c |-> r.c, store |-> messageTags, signals |-> <<>>,
                         forward |-> FALSE, line |-> m]
           ELSE IF ExtJwtTaken(r.c, line)
                   THEN [c |-> r.c, store |-> store,
                         signals |-> ClientExtJwt(r.c, line),
                         forward |-> FALSE, line |-> line]
                   ELSE [c |-> r.c, store |-> store, signals |-> <<>>,
                         forward |-> TRUE, line |-> line]

\* The next line of the script comes from a client: ProcessLineFromClient,
\* then processLineToUpstream for the line it returns, which writes it
\* unless the irc.line hook halts it.
ClientStep ==
    /\ pos < Len(script)
    /\ script[pos + 1].dir = "client"
    /\ pos' = pos + 1
    /\ LET e == script[pos + 1]
           r == ClientFeatures(session[e.to], e.line)
           ss == [session EXCEPT ![e.to] =
                  [r.c EXCEPT
                     !.down = @ \o [i \in 1..Len(r.signals) |->
                                       Down(pos + 1, TRUE, r.signals[i])],
                     !.up = IF r.forward /\ ~e.halt
                               THEN Append(@, Up(pos + 1, r.line))
                               ELSE @]]
       IN  /\ session' = IF TagMsgTaken(session[e.to], e.line)
                            THEN TagMsgFanout(ss, e.to, e.line, pos + 1)
                            ELSE ss
           /\ messageTags' = r.store
    /\ UNCHANGED <<clientVars, script, args, result>>

FeatureNext == ClientStep \/ UpstreamStep

\* Scripts of n entries over the set entries
Scripts(entries, n) == [1..n -> entries]

\* Upstream lines around the ISUPPORT numerics: 005 with and without the
\* EXTJWT token, 005 with a single parameter, 001, a line that is no 005,
\* and a line that does not parse.
IsupportLines ==
    { IrcLine({}, "srv", "005",
              <<"alice", "CHANTYPES=#", "are supported by this server">>),
      IrcLine({<<"time", "t1">>}, "srv", "005",
              <<"alice", "extjwt", "are supported by this server">>),
      IrcLine({}, "srv", "005", <<"alice">>),
      IrcLine({}, "srv", "PING", <<"x">>),
      BadLine }

IsupportInit ==
    /\ Start(0)
    /\ script \in Scripts({Entry("A", "upstream", h, l) :
                              h \in BOOLEAN, l \in IsupportLines},
                          MaxIsupportLines)
    /\ pos = 0
    /\ session = [s \in Sessions |-> NewSession("alice")]
    /\ messageTags = {}
    /\ args = <<>>
    /\ result = <<>>

IsupportSpec == IsupportInit /\ [][UpstreamStep]_vars

\* Upstream JOIN, PART, QUIT and NICK lines: of the session's nick and of
\* another, channel names in both cases, QUIT with and without a reason,
\* and the session's nick changing to "al".
ChannelLines ==
    { IrcLine({}, "alice", "JOIN", <<"#a">>),
      IrcLine({}, "alice", "JOIN", <<"#B">>),
      IrcLine({}, "al", "JOIN", <<"#b">>),
      IrcLine({}, "bob", "JOIN", <<"#a">>),
      IrcLine({}, "alice", "PART", <<"#A">>),
      IrcLine({}, "bob", "PART", <<"#a">>),
      IrcLine({}, "alice", "QUIT", <<"bye">>),
      IrcLine({}, "alice", "QUIT", <<>>),
      IrcLine({}, "bob", "QUIT", <<"bye">>),
      IrcLine({}, "alice", "NICK", <<"al">>) }

ChannelInit ==
    /\ Start(0)
    /\ script \in Scripts({Entry("A", "upstream", FALSE, l) : l \in ChannelLines},
                          MaxChannelLines)
    /\ pos = 0
    /\ session = [s \in Sessions |-> NewSession("alice")]
    /\ messageTags = {}
    /\ args = <<>>
    /\ result = <<>>

ChannelSpec == ChannelInit /\ [][UpstreamStep]_vars

\* Client CAP and EXTJWT lines.  A CAP REQ carries its capability list as
\* the tokens strings.Split makes of it: "message-tags" alone, with a space
\* after it, in mixed case next to sasl, as a draft name, after server-time
\* in a parameter of its own, and lists without it.
CapClientLines ==
    { IrcLine({}, "", "CAP", <<"LS">>),
      IrcLine({}, "", "CAP", <<"REQ", <<"message-tags">>>>),
      IrcLine({}, "", "CAP", <<"REQ", <<"message-tags", "">>>>),
      IrcLine({}, "", "CAP", <<"REQ", <<"Message-Tags", "sasl">>>>),
      IrcLine({}, "", "CAP", <<"REQ", <<"draft/message-tags-0.2">>>>),
      IrcLine({}, "", "CAP", <<"REQ", <<"server-time">>, <<"message-tags">>>>),
      IrcLine({}, "", "CAP", <<"REQ", <<"sasl">>>>),
      IrcLine({}, "", "EXTJWT", <<"#a">>),
      IrcLine({}, "", "EXTJWT", <<"#B", "svc">>),
      IrcLine({}, "", "EXTJWT", <<"*">>),
      IrcLine({}, "", "EXTJWT", <<>>) }

\* Upstream lines next to them: the session joins #a and #b, and a server
\* that has EXTJWT itself says so in its 005, followed by a PING.
CapUpstreamLines ==
    { IrcLine({}, "alice", "JOIN", <<"#a">>),
      IrcLine({}, "alice", "JOIN", <<"#b">>),
      IrcLine({}, "srv", "005",
              <<"alice", "extjwt", "are supported by this server">>),
      IrcLine({}, "srv", "PING", <<"x">>) }

CapInit ==
    /\ Start(0)
    /\ script \in Scripts({Entry("A", "client", FALSE, l) : l \in CapClientLines}
                          \cup {Entry("A", "upstream", FALSE, l) :
                                   l \in CapUpstreamLines},
                          MaxCapLines)
    /\ pos = 0
    /\ session = [s \in Sessions |-> NewSession("alice")]
    /\ messageTags = {}
    /\ args = <<>>
    /\ result = <<>>

CapSpec == CapInit /\ [][FeatureNext]_vars

\* Client lines of a capability negotiation: CAP LS, and CAP REQ for
\* message-tags alone, next to sasl, for sasl alone and for server-time.
AckClientLines ==
    { IrcLine({}, "", "CAP", <<"LS">>),
      IrcLine({}, "", "CAP", <<"REQ", <<"message-tags">>>>),
      IrcLine({}, "", "CAP", <<"REQ", <<"sasl", "message-tags">>>>),
      IrcLine({}, "", "CAP", <<"REQ", <<"sasl">>>>),
      IrcLine({}, "", "CAP", <<"REQ", <<"server-time">>>>) }

\* The server's side of it: listings with and without message-tags, the
\* first line of a listing that goes on, ACK and NAK.
AckUpstreamLines ==
    { IrcLine({}, "srv", "CAP", <<"alice", "LS", <<"sasl">>>>),
      IrcLine({}, "srv", "CAP", <<"alice", "LS", <<"sasl", "message-tags">>>>),
      IrcLine({}, "srv", "CAP", <<"alice", "LS", <<"*">>, <<"sasl">>>>),
      IrcLine({}, "srv", "CAP", <<"alice", "ACK", <<"sasl">>>>),
      IrcLine({}, "srv", "CAP", <<"alice", "NAK", <<"sasl">>>>) }

AckInit ==
    /\ Start(0)
    /\ script \in Scripts({Entry("A", "client", FALSE, l) : l \in AckClientLines}
                          \cup {Entry("A", "upstream", FALSE, l) :
                                   l \in AckUpstreamLines},
                          MaxAckLines)
    /\ pos = 0
    /\ session = [s \in Sessions |-> NewSession("alice")]
    /\ messageTags = {}
    /\ args = <<>>
    /\ result = <<>>

AckSpec == AckInit /\ [][FeatureNext]_vars

\* TAGMSG lines of session A (nick alice) after its CAP LS: to a channel in
\* two spellings, to another channel, to the nick of session B and to its
\* own, and without a target.
TagmsgClientLines ==
    { IrcLine({}, "", "CAP", <<"LS">>),
      IrcLine({<<"+x", "1">>}, "", "TAGMSG", <<"#a">>),
      IrcLine({<<"+x", "1">>}, "", "TAGMSG", <<"#B">>),
      IrcLine({<<"+x", "1">>}, "", "TAGMSG", <<"Bob">>),
      IrcLine({<<"+x", "1">>}, "", "TAGMSG", <<"alice">>),
      IrcLine({<<"+x", "1">>}, "", "TAGMSG", <<>>) }

\* Session A (alice) and session B (bob) join channels; B is on the same
\* upstream host as A, in another spelling, or on another host.
TagmsgInit ==
    /\ Start(0)
    /\ script \in Scripts({Entry("A", "client", FALSE, l) : l \in TagmsgClientLines}
                          \cup {Entry("A", "upstream", FALSE,
                                      IrcLine({}, "alice", "JOIN", <<"#a">>)),
                                Entry("B", "upstream", FALSE,
                                      IrcLine({}, "bob", "JOIN", <<"#a">>)),
                                Entry("B", "upstream", FALSE,
                                      IrcLine({}, "bob", "JOIN", <<"#b">>))},
                          MaxTagmsgLines)
    /\ pos = 0
    /\ \E host \in {"IRC.A", "irc.b"} :
          session = [s \in Sessions |->
                       IF s = "A" THEN NewSession("alice")
                       ELSE [NewSession("bob") EXCEPT !.Hostname = host]]
    /\ messageTags = {}
    /\ args = <<>>
    /\ result = <<>>

TagmsgSpec == TagmsgInit /\ [][FeatureNext]_vars

\* Upstream lines for session A (nick alice) around MODE: it joins #a; op
\* and voice given to it and taken from it, op given to another nick, two
\* changes in one line, a change on a channel it has not joined, a user
\* mode, and a 005 with a single parameter.  The mode string is the
\* sequence of its characters.
ModeLines ==
    { IrcLine({}, "alice", "JOIN", <<"#a">>),
      IrcLine({}, "op", "MODE", <<"#a", <<"+", "o">>, "alice">>),
      IrcLine({}, "op", "MODE", <<"#A", <<"+", "v">>, "Alice">>),
      IrcLine({}, "op", "MODE", <<"#a", <<"-", "o">>, "alice">>),
      IrcLine({}, "op", "MODE", <<"#a", <<"+", "o">>, "bob">>),
      IrcLine({}, "op", "MODE", <<"#a", <<"+", "o", "-", "v">>, "bob", "alice">>),
      IrcLine({}, "op", "MODE", <<"#b", <<"+", "o">>, "alice">>),
      IrcLine({}, "alice", "MODE", <<"alice", <<"+", "i">>>>),
      IrcLine({}, "srv", "005", <<"alice">>) }

ModeInit ==
    /\ Start(0)
    /\ script \in Scripts({Entry("A", "upstream", FALSE, l) : l \in ModeLines},
                          MaxModeLines)
    /\ pos = 0
    /\ session = [s \in Sessions |-> NewSession("alice")]
    /\ messageTags = {}
    /\ args = <<>>
    /\ result = <<>>

ModeSpec == ModeInit /\ [][UpstreamStep]_vars

\* PRIVMSG lines of session A (nick alice): with a "+" tag next to a plain
\* one, with another "+" tag, and without tags.
TagClientLines ==
    { IrcLine({<<"+x", "1">>, <<"time", "t1">>}, "", "PRIVMSG", <<"#a", "hi">>),
      IrcLine({<<"+y", "2">>}, "", "PRIVMSG", <<"#a", "hi">>),
      IrcLine({<<"+y", "2">>}, "", "PRIVMSG", <<"#a", "yo">>),
      IrcLine({}, "", "PRIVMSG", <<"#a", "hi">>) }

\* The server's copies of them, with the server's own time tag, and a
\* message of the same text from another nick.
TagUpstreamLines ==
    { IrcLine({<<"time", "t2">>}, "alice", "PRIVMSG", <<"#a", "hi">>),
      IrcLine({}, "alice", "PRIVMSG", <<"#a", "yo">>),
      IrcLine({}, "carol", "PRIVMSG", <<"#a", "hi">>) }

\* Two sessions on one upstream, alice and bob, each with message-tags
\* emulation on or off; the copies reach bob, and alice too (echo).
TagsInit ==
    /\ Start(0)
    /\ script \in Scripts({Entry("A", "client", FALSE, l) : l \in TagClientLines}
                          \cup {Entry(s, "upstream", FALSE, l) :
                                   s \in Sessions, l \in TagUpstreamLines},
                          MaxTagLines)
    /\ pos = 0
    /\ \E a, b \in BOOLEAN :
          session = [s \in Sessions |->
                       [NewSession(IF s = "A" THEN "alice" ELSE "bob")
                          EXCEPT !.Features.Messagetags =
                                    IF s = "A" THEN a ELSE b]]
    /\ messageTags = {}
    /\ args = <<>>
    /\ result = <<>>

TagsSpec == TagsInit /\ [][FeatureNext]_vars

\* ---------------------------------------------------------- function calls
\* A signed token of n characters, each character standing for itself
TokenSigned(n) == [i \in 1..n |-> i]

\* An emission that never splits the token
ExtJwtUnsplit(tokenM, tokenSigned) ==
    << IrcLine({}, "srv", "EXTJWT", tokenM \o <<tokenSigned>>) >>

\* ProcessLineFromClient, EXTJWT, from "Spit token if it exceeds max length"
\* on: the lines signalled for the parameters tokenM has so far (target and
\* service) and the signed token.
RECURSIVE ExtJwtLines(_, _)
ExtJwtLines(tokenM, tokenSigned) ==
    IF Len(tokenSigned) > MAX_EXTJWT_SIZE
       THEN << IrcLine({}, "srv", "EXTJWT",
                       tokenM \o <<"*", SubSeq(tokenSigned, 1, MAX_EXTJWT_SIZE)>>) >>
            \o ExtJwtLines(tokenM,
                           SubSeq(tokenSigned, MAX_EXTJWT_SIZE + 1,
                                  Len(tokenSigned)))
       ELSE << IrcLine({}, "srv", "EXTJWT", tokenM \o <<tokenSigned>>) >>

\* EXTJWT for a target with a token of some length: "*" or a tracked channel
ExtJwtInit ==
    /\ Start(0)
    /\ script = <<>>
    /\ pos = 0
    /\ session = <<>>
    /\ messageTags = {}
    /\ args \in [target : {"*", "#a"}, len : 1..MaxTokenLen]
    /\ result = <<>>

ExtJwtCall ==
    /\ result = <<>>
    /\ result' = << ExtJwtLines(<<args.target, "*">>, TokenSigned(args.len)) >>
    /\ UNCHANGED <<clientVars, script, pos, session, messageTags, args>>

ExtJwtSpec == ExtJwtInit /\ [][ExtJwtCall]_vars

\* The errors typeOfErr is given: nil, the errors of the proxy dialer, a
\* net.OpError of each operation around each cause (a refused or reset
\* connection, a failed or timed-out lookup, an unreachable host), bare
\* Errno values, a bare net.DNSError, and an error of another type.
ErrInputs ==
    { Err("nil", "", "") }
    \cup { Err("proxy.ConnError", t, "") :
             t \in {"conn_reset", "conn_refused", "not_found", "conn_timeout",
                    "auth_failed"} }
    \cup { Err("net.OpError", op, cause) :
             op \in {"dial", "read", "write", "close"},
             cause \in {"ECONNREFUSED", "ECONNRESET", "no such host",
                        "i/o timeout", "ETIMEDOUT", "EHOSTUNREACH"} }
    \cup { Err("syscall.Errno", n, "") :
             n \in {"ECONNREFUSED", "ECONNRESET", "ETIMEDOUT", "EHOSTUNREACH"} }
    \cup { Err("net.DNSError", d, "") : d \in {"no such host", "timeout"} }
    \cup { Err("errors.errorString", "", "") }

TypeOfErrInit ==
    /\ Start(0)
    /\ script = <<>>
    /\ pos = 0
    /\ session = <<>>
    /\ messageTags = {}
    /\ args \in ErrInputs
    /\ result = <<>>

TypeOfErrCall ==
    /\ result = <<>>
    /\ result' = << typeOfErr(args) >>
    /\ UNCHANGED <<clientVars, script, pos, session, messageTags, args>>

TypeOfErrSpec == TypeOfErrInit /\ [][TypeOfErrCall]_vars

\* Strings are sequences of characters here.
\* buildWebircTags over c.Tags, given as the <<key, val>> pairs in the order
\* range visits them (any order: Tags is a map).
RECURSIVE buildWebircTags(_)
buildWebircTags(tags) ==
    IF tags = <<>> THEN <<>>
    ELSE LET str == buildWebircTags(SubSeq(tags, 1, Len(tags) - 1))
             key == tags[Len(tags)][1]
             val == tags[Len(tags)][2]
         IN  (IF str # <<>> THEN str \o <<" ">> ELSE str)
             \o (IF val = <<>> THEN key ELSE key \o <<"=">> \o val)

\* writeWebircLines with a WEBIRC password "pw", the default gateway name
\* and no Config.ClientHostname: the line written, without its "\n".
writeWebircLines(c) ==
    LET built == buildWebircTags(c.Tags)
        webircTags == IF \E i \in 1..Len(built) : built[i] = " "
                         THEN <<":">> \o built
                         ELSE built
        remoteAddr == IF c.RemoteAddr # <<>> /\ c.RemoteAddr[1] = ":"
                         THEN <<"0">> \o c.RemoteAddr
                         ELSE c.RemoteAddr
    IN  <<"W", "E", "B", "I", "R", "C", " ", "p", "w", " ", "g", "w", " ">>
        \o c.RemoteHostname \o <<" ">> \o remoteAddr \o <<" ">> \o webircTags

\* ircNextToken(s, allowTrailing): the token and the rest
ircNextToken(s, allowTrailing) ==
    LET solid == {i \in 1..Len(s) : s[i] # " "} IN
    IF solid = {}
       THEN [token |-> <<>>, rest |-> <<>>]
       ELSE LET first == CHOOSE i \in solid : \A j \in solid : i <= j
                spaces == {i \in first..Len(s) : s[i] = " "}
                spaceIdx == CHOOSE i \in spaces : \A j \in spaces : i <= j
            IN  IF allowTrailing /\ s[first] = ":"
                   THEN [token |-> SubSeq(s, first + 1, Len(s)), rest |-> <<>>]
                   ELSE IF spaces # {}
                           THEN [token |-> SubSeq(s, first, spaceIdx - 1),
                                 rest |-> SubSeq(s, spaceIdx + 1, Len(s))]
                           ELSE [token |-> SubSeq(s, first, Len(s)),
                                 rest |-> <<>>]

\* ircParseLine, the Params loop: the parameters in what follows the command
RECURSIVE ircParams(_)
ircParams(rest) ==
    LET t == ircNextToken(rest, TRUE) IN
    IF t.token = <<>> THEN <<>> ELSE <<t.token>> \o ircParams(t.rest)

\* Remote addresses, the hostname being the address where the reverse
\* lookup fails, and tags with and without values, in every order.
WebircInit ==
    /\ Start(0)
    /\ script = <<>>
    /\ pos = 0
    /\ session = <<>>
    /\ messageTags = {}
    /\ \E addr \in {<<"1">>, <<":", ":", "1">>},
          keys \in {<<>>, <<"k">>, <<"s">>, <<"k", "s">>, <<"s", "k">>} :
       \E host \in {<<"h">>, addr},
          vals \in [1..Len(keys) -> {<<>>, <<"v">>, <<"v", " ", "w">>}] :
          args = [RemoteAddr |-> addr, RemoteHostname |-> host,
                  Tags |-> [i \in 1..Len(keys) |-> << <<keys[i]>>, vals[i] >>]]
    /\ result = <<>>

WebircCall ==
    /\ result = <<>>
    /\ result' = << writeWebircLines(args) >>
    /\ UNCHANGED <<clientVars, script, pos, session, messageTags, args>>

WebircSpec == WebircInit /\ [][WebircCall]_vars

\* ------------------------------------------- client lines, as text
\* strings.HasPrefix
HasPrefix(data, prefix) ==
    /\ Len(data) >= Len(prefix)
    /\ SubSeq(data, 1, Len(prefix)) = prefix

\* strings.ToUpper
StringToUpper(str) == [i \in 1..Len(str) |-> ToUpper(str[i])]

\* ircParseLine, a leading token that starts with ch (the tags with "@",
\* the prefix with ":") is passed over
ircSkipToken(t, ch) ==
    IF t.token # <<>> /\ t.token[1] = ch
       THEN ircNextToken(t.rest, FALSE)
       ELSE t

\* ircParseLine, from the command on: t holds the command token
ircParseCommand(t) ==
    IF t.token = <<>>
       THEN [err |-> TRUE, Command |-> <<>>, Params |-> <<>>]
       ELSE [err |-> FALSE, Command |-> t.token, Params |-> ircParams(t.rest)]

\* ircParseLine: tags and prefix skipped, the command and the parameters
ircParseLine(line) ==
    ircParseCommand(
        ircSkipToken(ircSkipToken(ircNextToken(line, FALSE), "@"), ":"))

\* strings.LastIndex(addr, ":"), 0 for the -1 of the source
LastColon(addr) ==
    LET colons == {i \in 1..Len(addr) : addr[i] = ":"} IN
    IF colons = {} THEN 0 ELSE CHOOSE i \in colons : \A j \in colons : j <= i

\* The session a forwarding script runs in
ForwardSession(gateway, password) ==
    [Gateway |-> gateway, ServerPassword |-> password,
     UpstreamStarted |-> FALSE, upstream |-> "nil", SentPass |-> FALSE,
     Nick |-> <<>>, Username |-> <<>>, RealName |-> <<>>, DestHost |-> <<>>,
     Encoding |-> <<>>, shutdown |-> FALSE,
     UpstreamSend |-> <<>>, written |-> <<>>]

\* maybeSendPass
maybeSendPass(c) ==
    IF c.ServerPassword = <<>>
       THEN c
       ELSE [c EXCEPT !.SentPass = TRUE,
                      !.written = Append(@, [data |-> <<"P", "A", "S", "S", " ">>
                                                       \o c.ServerPassword,
                                             from |-> "gateway",
                                             started |-> TRUE])]

\* connectUpstream for a destination that is allowed: the dial succeeds
\* (ok) or fails, and on success the prelude is written before it returns.
ForwardConnect(c, ok) ==
    LET c1 == [c EXCEPT !.UpstreamStarted = TRUE] IN
    IF ok THEN maybeSendPass([c1 EXCEPT !.upstream = "open"])
          ELSE [c1 EXCEPT !.shutdown = TRUE]

\* maybeConnectUpstream of ProcessLineFromClient, no verification required
ForwardMaybeConnect(c, ok) ==
    IF ~c.UpstreamStarted /\ c.Username # <<>> /\ c.Nick # <<>>
       THEN ForwardConnect(c, ok)
       ELSE c

\* A line processor that passes every line upstream as it is
ForwardLineUnprocessed(c, line, ok) == [c |-> c, line |-> line]

\* ProcessLineFromClient, the NICK handling: the session afterwards
ForwardNick(c, message, cmd, ok) ==
    IF message.err \/ cmd # <<"N", "I", "C", "K">> \/ c.UpstreamStarted
       THEN c
       ELSE ForwardMaybeConnect(
                IF Len(message.Params) > 0
                   THEN [c EXCEPT !.Nick = message.Params[1]]
                   ELSE c, ok)

\* ProcessLineFromClient, the HOST handling with gateway mode on and an
\* address given
ForwardHost(c, addr, portSep) ==
    IF addr = <<>>
       THEN [c |-> [c EXCEPT !.shutdown = TRUE], line |-> <<>>]
       ELSE [c |-> [c EXCEPT !.DestHost = IF portSep = 0 THEN addr
                                         ELSE SubSeq(addr, 1, portSep - 1)],
             line |-> <<>>]

\* ProcessLineFromClient from the USER handling to the HOST handling, c the
\* session after the NICK handling
ForwardRegistration(c, line, message, cmd, ok) ==
    IF message.err
       THEN [c |-> c, line |-> line]
    ELSE IF cmd = <<"U", "S", "E", "R">> /\ ~c.UpstreamStarted
       THEN IF Len(message.Params) < 4
               THEN [c |-> c, line |-> <<>>]
               ELSE [c |-> ForwardMaybeConnect(
                               [c EXCEPT !.Username = message.Params[1],
                                         !.RealName = message.Params[4]], ok),
                     line |-> line]
    ELSE IF cmd = <<"E", "N", "C", "O", "D", "I", "N", "G">>
       THEN [c |-> IF Len(message.Params) > 0
                      THEN [c EXCEPT !.Encoding = message.Params[1]]
                      ELSE c,
             line |-> <<>>]
    ELSE IF cmd = <<"H", "O", "S", "T">> /\ ~c.UpstreamStarted
       THEN IF ~c.Gateway \/ Len(message.Params) = 0
               THEN [c |-> c, line |-> <<>>]
               ELSE ForwardHost(c, message.Params[1],
                                LastColon(message.Params[1]))
    ELSE [c |-> c, line |-> line]

\* ProcessLineFromClient on a parsed line
ForwardProcessMessage(c, line, message, cmd, ok) ==
    ForwardRegistration(ForwardNick(c, message, cmd, ok),
                        line, message, cmd, ok)

\* ProcessLineFromClient up to the HOST handling: the session afterwards
\* and the line to send upstream (empty for none)
ForwardProcessLineFromClient(c, line, ok) ==
    ForwardProcessMessage(c, line, ircParseLine(line),
                          StringToUpper(ircParseLine(line).Command), ok)

\* processLineToUpstream on a line as text: what is written upstream (empty
\* for nothing)
ForwardProcessLineToUpstream(c, data) ==
    IF HasPrefix(data, <<"P", "A", "S", "S", " ">>) /\ c.SentPass
       THEN <<>>
    ELSE IF HasPrefix(data, <<"U", "S", "E", "R", " ">>)
       THEN <<"U", "S", "E", "R", " ">> \o c.Username
            \o <<" ", "0", " ", "*", " ", ":">> \o c.RealName
    ELSE data

\* The lines a client sends in a forwarding script
ForwardLines ==
    { <<"N", "I", "C", "K", " ", "n">>,
      <<"U", "S", "E", "R", " ", "u", " ", "0", " ", "*", " ", "r">>,
      <<"H", "O", "S", "T", " ", "h", ":", "1">>,
      <<"E", "N", "C", "O", "D", "I", "N", "G", " ", "u">>,
      <<"e", "n", "c", "o", "d", "i", "n", "g", " ", "u">>,
      <<"P", "A", "S", "S", " ", "x">>,
      <<"p", "a", "s", "s", " ", "x">> }

ForwardInit ==
    /\ Start(0)
    /\ messageTags = {}
    /\ args = <<>>
    /\ result = <<>>
    /\ pos = 0
    /\ script \in [1..MaxForwardLines -> ForwardLines]
    /\ \E gateway \in BOOLEAN, password \in {<<>>, <<"p">>} :
          session = ForwardSession(gateway, password)

\* handleDataLine, the send to UpstreamSend of the line r.line that
\* ProcessLineFromClient returned with the session r.c; it waits while the
\* queue is full
ForwardSend(r, started) ==
    /\ r.line # <<>> => Len(r.c.UpstreamSend) < ChanCap
    /\ session' = IF r.line = <<>> THEN r.c
                  ELSE [r.c EXCEPT !.UpstreamSend =
                            Append(@, [data |-> r.line, started |-> started])]

\* handleDataLine, a line from ThrottledRecv.Output
ForwardClientLine ==
    /\ pos < Len(script)
    /\ ~session.shutdown
    /\ \E ok \in BOOLEAN :
          ForwardSend(ForwardProcessLineFromClient(session, script[pos + 1], ok),
                      session.UpstreamStarted)
    /\ pos' = pos + 1
    /\ UNCHANGED <<clientVars, script, messageTags, args, result>>

\* handleDataLine, processLineToUpstream and its write of data (empty for
\* nothing) for the head of UpstreamSend
ForwardWrite(head, data) ==
    session' = [session EXCEPT
       !.UpstreamSend = Tail(@),
       !.written = IF data = <<>> THEN @
                   ELSE Append(@, [data |-> data, from |-> "client",
                                   started |-> head.started])]

\* handleDataLine, a line from UpstreamSend: taken only with an upstream
\* stream
ForwardUpstreamSend ==
    /\ session.upstream # "nil"
    /\ session.UpstreamSend # <<>>
    /\ ForwardWrite(session.UpstreamSend[1],
                    ForwardProcessLineToUpstream(session,
                                                 session.UpstreamSend[1].data))
    /\ UNCHANGED <<clientVars, script, pos, messageTags, args, result>>

ForwardNext == ForwardClientLine \/ ForwardUpstreamSend

ForwardSpec == ForwardInit /\ [][ForwardNext]_vars

\* ------------------------------ the worker and readUpstream's teardown
\* A session after connectUpstream: client.upstream is set and the
\* goroutine of readUpstream is reading.  workerPc is the worker's place in
\* handleDataLine, seen the value of client.upstream its last test read,
\* ret the place it goes on from after processLineToUpstream, and calls the
\* Write and Close calls the worker made with the receiver of each.
TeardownSession ==
    [upstream |-> "conn", conn |-> "open", readerPc |-> "reading",
     workerPc |-> "select", upstreamSendCase |-> FALSE, seen |-> "nil",
     ret |-> "select", UpstreamSend |-> <<>>, upstreamRecvClosed |-> FALSE,
     calls |-> <<>>]

\* A call of the worker on the upstream stream
StreamCall(op, on) == [op |-> op, on |-> on]

\* The values the receiver of client.upstream.Write / Close can have: the
\* field is read again for the call, or the value the test read is used;
\* neither read is ordered with the assignment in readUpstream.
Receivers(c) == {c.seen, c.upstream}

TeardownInit ==
    /\ Start(0)
    /\ messageTags = {}
    /\ args = <<>>
    /\ result = <<>>
    /\ pos = 0
    /\ script \in [1..MaxTeardownTurns -> {"line", "closed"}]
    /\ session = TeardownSession

\* handleDataLine: upstreamSend is c.UpstreamSend, or nil when c.upstream
\* is nil
TeardownSelect ==
    /\ session.workerPc = "select"
    /\ session' = [session EXCEPT !.upstreamSendCase = session.upstream # "nil",
                                  !.workerPc = "wait"]
    /\ UNCHANGED <<clientVars, script, pos, messageTags, args, result>>

\* handleDataLine, a line from ThrottledRecv.Output goes to UpstreamSend
TeardownClientLine ==
    /\ session.workerPc = "wait"
    /\ pos < Len(script)
    /\ script[pos + 1] = "line"
    /\ Len(session.UpstreamSend) < ChanCap
    /\ session' = [session EXCEPT !.UpstreamSend = Append(@, pos + 1),
                                  !.workerPc = "select"]
    /\ pos' = pos + 1
    /\ UNCHANGED <<clientVars, script, messageTags, args, result>>

\* handleDataLine, ThrottledRecv.Output is closed: the synthetic QUIT goes
\* through processLineToUpstream when its condition holds, then
\* StartShutdown and the test before c.upstream.Close()
TeardownClientClosed ==
    /\ session.workerPc = "wait"
    /\ pos < Len(script)
    /\ script[pos + 1] = "closed"
    /\ \E sendQuit \in BOOLEAN :
          session' = [session EXCEPT
             !.workerPc = IF sendQuit THEN "check" ELSE "closecheck",
             !.ret = "closecheck"]
    /\ UNCHANGED <<clientVars, script, pos, messageTags, args, result>>

\* handleDataLine, a line from upstreamSend: processLineToUpstream up to
\* its test of client.upstream, unless a hook halts the line or the
\* encoding fails
TeardownUpstreamSend ==
    /\ session.workerPc = "wait"
    /\ session.upstreamSendCase
    /\ session.UpstreamSend # <<>>
    /\ \E dropped \in BOOLEAN :
          session' = [session EXCEPT
             !.UpstreamSend = Tail(@),
             !.workerPc = IF dropped THEN "select" ELSE "check",
             !.ret = "select"]
    /\ UNCHANGED <<clientVars, script, pos, messageTags, args, result>>

\* handleDataLine, UpstreamRecv is closed: SendClientSignal, StartShutdown
\* and return true
TeardownUpstreamRecvClosed ==
    /\ session.workerPc = "wait"
    /\ session.upstreamRecvClosed
    /\ session' = [session EXCEPT !.workerPc = "quit"]
    /\ UNCHANGED <<clientVars, script, pos, messageTags, args, result>>

\* processLineToUpstream: if client.upstream != nil
TeardownCheck ==
    /\ session.workerPc = "check"
    /\ session' = [session EXCEPT
          !.seen = session.upstream,
          !.workerPc = IF session.upstream # "nil" THEN "call" ELSE session.ret]
    /\ UNCHANGED <<clientVars, script, pos, messageTags, args, result>>

\* processLineToUpstream: client.upstream.Write(...).  With a nil receiver
\* the call panics and the recover of handleDataLine returns to the loop.
TeardownWrite ==
    /\ session.workerPc = "call"
    /\ \E on \in Receivers(session) :
          session' = [session EXCEPT
             !.calls = Append(@, StreamCall("Write", on)),
             !.workerPc = IF on = "nil" THEN "select" ELSE session.ret]
    /\ UNCHANGED <<clientVars, script, pos, messageTags, args, result>>

\* handleDataLine: if c.upstream != nil, after StartShutdown("client_closed")
TeardownCloseCheck ==
    /\ session.workerPc = "closecheck"
    /\ session' = [session EXCEPT
          !.seen = session.upstream,
          !.workerPc = IF session.upstream # "nil" THEN "closecall" ELSE "quit"]
    /\ UNCHANGED <<clientVars, script, pos, messageTags, args, result>>

\* handleDataLine: c.upstream.Close() and return true
TeardownClose ==
    /\ session.workerPc = "closecall"
    /\ \E on \in Receivers(session) :
          session' = [session EXCEPT
             !.calls = Append(@, StreamCall("Close", on)),
             !.conn = IF on = "nil" THEN @ ELSE "closed",
             !.workerPc = IF on = "nil" THEN "select" ELSE "quit"]
    /\ UNCHANGED <<clientVars, script, pos, messageTags, args, result>>

\* The upstream server ends the stream
TeardownUpstreamEnds ==
    /\ session.conn = "open"
    /\ session' = [session EXCEPT !.conn = "closed"]
    /\ UNCHANGED <<clientVars, script, pos, messageTags, args, result>>

\* readUpstream's goroutine: the read failed, close(client.UpstreamRecv)
TeardownReaderBreak ==
    /\ session.readerPc = "reading"
    /\ session.conn = "closed"
    /\ session' = [session EXCEPT !.upstreamRecvClosed = TRUE,
                                  !.readerPc = "closing"]
    /\ UNCHANGED <<clientVars, script, pos, messageTags, args, result>>

\* readUpstream's goroutine: client.upstream.Close()
TeardownReaderClose ==
    /\ session.readerPc = "closing"
    /\ session' = [session EXCEPT !.conn = "closed", !.readerPc = "clearing"]
    /\ UNCHANGED <<clientVars, script, pos, messageTags, args, result>>

\* readUpstream's goroutine: client.upstream = nil
TeardownReaderClear ==
    /\ session.readerPc = "clearing"
    /\ session' = [session EXCEPT !.upstream = "nil", !.readerPc = "done"]
    /\ UNCHANGED <<clientVars, script, pos, messageTags, args, result>>

TeardownNext ==
    \/ TeardownSelect
    \/ TeardownClientLine
    \/ TeardownClientClosed
    \/ TeardownUpstreamSend
    \/ TeardownUpstreamRecvClosed
    \/ TeardownCheck
    \/ TeardownWrite
    \/ TeardownCloseCheck
    \/ TeardownClose
    \/ TeardownUpstreamEnds
    \/ TeardownReaderBreak
    \/ TeardownReaderClose
    \/ TeardownReaderClear

TeardownSpec == TeardownInit /\ [][TeardownNext]_vars

\* --------------------------------- signals from one session to another
\* A session for the signalling between sessions: the fields of NewSession
\* with the emulation on, its Signals queue, the shutdown latch and the
\* holder of its shuttingDownLock ("none" when free), whether its transport
\* still takes signals, and its worker's place: pending holds the sessions
\* the line in hand is still to be signalled to, sending the session whose
\* SendClientSignal the worker is in ("" for none).
StallSession(nick, channels) ==
    [Nick |-> nick, Hostname |-> "irc.a", Channels |-> channels,
     Features |-> [Messagetags |-> TRUE, ExtJwt |-> TRUE],
     Signals |-> <<>>, shuttingDown |-> FALSE, shuttingDownLock |-> "none",
     draining |-> TRUE, pending |-> <<>>, sending |-> ""]

\* Lines for the two workers: TAGMSG of session A (alice) to the nick of
\* session B, to a channel and to a nick nobody has, and lines from the
\* upstream of either session.
StallEntries ==
    { Entry("A", "client", FALSE, IrcLine({<<"+x", "1">>}, "", "TAGMSG", <<"bob">>)),
      Entry("A", "client", FALSE, IrcLine({<<"+x", "1">>}, "", "TAGMSG", <<"#a">>)),
      Entry("A", "client", FALSE, IrcLine({<<"+x", "1">>}, "", "TAGMSG", <<"carol">>)),
      Entry("A", "upstream", FALSE, IrcLine({}, "srv", "PING", <<"x">>)),
      Entry("B", "upstream", FALSE, IrcLine({}, "srv", "PING", <<"x">>)) }

StallInit ==
    /\ Start(0)
    /\ messageTags = {}
    /\ args = <<>>
    /\ result = <<>>
    /\ pos = 0
    /\ script \in [1..MaxStallLines -> StallEntries]
    /\ \E chans \in SUBSET {"#a"} :
          session = [s \in Sessions |->
                       IF s = "A" THEN StallSession("alice", {"#a"})
                       ELSE StallSession("bob", chans)]

\* The worker of session s is in the select of handleDataLine
StallIdle(s) == session[s].pending = <<>> /\ session[s].sending = ""

\* The sessions the loop over Gateway.Clients signals a TAGMSG of session
\* from to
StallTargets(from, m) ==
    IF Len(m.params) = 0 THEN {}
    ELSE {x \in Sessions : TagMsgReaches(session[from], session[x], m.params[1])}

\* The orders in which Gateway.Clients.IterBuffered can yield the sessions
\* of set
IterBuffered(set) ==
    {q \in [1..Cardinality(set) -> set] :
        \A i, j \in 1..Cardinality(set) : i # j => q[i] # q[j]}

\* handleDataLine, a client line: a TAGMSG is to be signalled to the
\* sessions it reaches, any other line goes upstream
StallClientLine ==
    /\ pos < Len(script)
    /\ script[pos + 1].dir = "client"
    /\ StallIdle(script[pos + 1].to)
    /\ pos' = pos + 1
    /\ \E q \in IterBuffered(StallTargets(script[pos + 1].to, script[pos + 1].line)) :
          session' = [session EXCEPT ![script[pos + 1].to].pending =
                        IF TagMsgTaken(session[script[pos + 1].to], script[pos + 1].line)
                           THEN q ELSE <<>>]
    /\ UNCHANGED <<clientVars, script, messageTags, args, result>>

\* handleDataLine, a line from UpstreamRecv: handleLineFromUpstream is to
\* signal it to the session's own client
StallUpstreamLine ==
    /\ pos < Len(script)
    /\ script[pos + 1].dir = "upstream"
    /\ StallIdle(script[pos + 1].to)
    /\ pos' = pos + 1
    /\ session' = [session EXCEPT ![script[pos + 1].to].pending = << script[pos + 1].to >>]
    /\ UNCHANGED <<clientVars, script, messageTags, args, result>>

\* SendClientSignal of session t called by the worker of session a:
\* c.shuttingDownLock.Lock()
StallLock(a, t) ==
    /\ session[a].pending # <<>>
    /\ session[a].sending = ""
    /\ t = Head(session[a].pending)
    /\ session[t].shuttingDownLock = "none"
    /\ session' = [session EXCEPT ![t].shuttingDownLock = a,
                                  ![a].sending = t,
                                  ![a].pending = Tail(session[a].pending)]
    /\ UNCHANGED <<clientVars, script, pos, messageTags, args, result>>

\* SendClientSignal of session t in the worker of session a: the send to
\* c.Signals unless the session is shutting down, then the deferred Unlock.
\* The send waits while the queue is full.
StallSend(a, t) ==
    /\ session[a].sending = t
    /\ session[t].shuttingDown \/ Len(session[t].Signals) < ChanCap
    /\ session' = [session EXCEPT
          ![t].Signals = IF session[t].shuttingDown THEN @ ELSE Append(@, a),
          ![t].shuttingDownLock = "none",
          ![a].sending = ""]
    /\ UNCHANGED <<clientVars, script, pos, messageTags, args, result>>

\* The transport's loop takes a signal and writes it to the client
StallTransportTake(s) ==
    /\ session[s].draining
    /\ session[s].Signals # <<>>
    /\ session' = [session EXCEPT ![s].Signals = Tail(@)]
    /\ UNCHANGED <<clientVars, script, pos, messageTags, args, result>>

\* The client stops reading: the transport's write does not return and its
\* loop takes no further signal
StallTransportStops(s) ==
    /\ session[s].draining
    /\ session' = [session EXCEPT ![s].draining = FALSE]
    /\ UNCHANGED <<clientVars, script, pos, messageTags, args, result>>

\* StartShutdown of session s: the lock, then the latch
StallStartShutdown(s) ==
    /\ session[s].shuttingDownLock = "none"
    /\ ~session[s].shuttingDown
    /\ session' = [session EXCEPT ![s].shuttingDown = TRUE]
    /\ UNCHANGED <<clientVars, script, pos, messageTags, args, result>>

StallNext ==
    \/ StallClientLine
    \/ StallUpstreamLine
    \/ \E a, t \in Sessions : StallLock(a, t)
    \/ \E a, t \in Sessions : StallSend(a, t)
    \/ \E s \in Sessions : StallTransportTake(s)
    \/ \E s \in Sessions : StallTransportStops(s)
    \/ \E s \in Sessions : StallStartShutdown(s)

StallSpec == StallInit /\ [][StallNext]_vars

\* ---------------------------------------------------------- properties
\* The place of a State value in idle, connecting, registering, connected,
\* ending.
StateRank(st) ==
    CASE st = ClientStateIdle -> 0
      [] st = ClientStateConnecting -> 1
      [] st = ClientStateRegistering -> 2
      [] st = ClientStateConnected -> 3
      [] st = ClientStateEnding -> 4

\* C1: State never moves backwards through idle, connecting, registering,
\* connected, ending; in particular once StartShutdown has set it to
\* ending no step assigns another value.  (Refuted: connectUpstream and the
\* 001 handler assign State without looking at the latch.)
C1_StateOnlyForward == [][StateRank(State') >= StateRank(State)]_vars

\* C2: however many StartShutdown calls are made, Signals is closed exactly
\* once (once as soon as one call has run, never before), and only by
\* StartShutdown holding the shutdown lock.
C2_SignalsClosedOnce ==
    /\ signalsClosed = (IF hist.shutdownCalls > 0 THEN 1 ELSE 0)
    /\ signalsClosed > 0 <=> shuttingDown
    /\ ~hist.closedOutsideLock

\* Two StartShutdown calls have run on the session, from different tasks.
C2_Witness ==
    /\ hist.shutdownCalls >= 2
    /\ signalsClosed = 1
    /\ recvClosed
    /\ hookCalls > 0
    /\ todo["hook"] = <<>>
    /\ todo["transport"] = <<>>

\* C3: shuttingDown never goes back to false; once it is true nothing more
\* is enqueued on Signals (the queue only drains) and a SendClientSignal call
\* changes nothing of the session; so nothing is sent on the closed channel.
C3_NoSignalAfterShutdown ==
    [][ /\ shuttingDown => shuttingDown'
        /\ shuttingDown => /\ sent' = sent
                           /\ Len(Signals') <= Len(Signals)
        /\ (shuttingDown /\ \E t \in Tasks : SendClientSignal(t))
              => UNCHANGED <<Signals, latchVars, sessVars, connVars, Clients>>
        /\ ~hist'.sentOnClosed ]_vars

\* A SendClientSignal call found the session shutting down and sent
\* nothing, the signal being the hook's state closed.
C3_Witness ==
    /\ hist.signalDropped
    /\ shuttingDown
    /\ hookCalls > 0
    /\ todo["hook"] = <<>>
    /\ \A i \in 1..Len(sent) : sent[i].from # "hook"

\* A StartShutdown call has been made by some task and has not returned
ShutdownCalled == \E t \in Tasks : HasNext(t, "shutdown")

C5_RegistryIsNotShuttingDown ==
    (created /\ ~ShutdownCalled) => (ClientId \in Clients <=> ~shuttingDown)

\* C5 amended: the registry holds every session whose shuttingDown flag is
\* false; a session that has left the registry has the flag true (and its
\* EndWG counter is back at zero), but a session with the flag true may
\* still be in the registry after StartShutdown has returned.
C5_RegistryHoldsNotShuttingDown ==
    created =>
       /\ ~shuttingDown => ClientId \in Clients
       /\ ClientId \notin Clients => shuttingDown /\ EndWG = 0
       /\ shuttingDown <=> EndWG = 0

\* StartShutdown has returned, no call is in progress, and the session is
\* still in the registry.
C5_Witness ==
    /\ created
    /\ shuttingDown
    /\ hist.shutdownCalls > 0
    /\ ~ShutdownCalled
    /\ ClientId \in Clients
    /\ waiterPc = "waiting"

\* C6: whatever NICK, USER, CAPTCHA and HOST lines the client sends,
\* connectUpstream is entered at most once and at most one dial is made.
C6_AtMostOneConnect ==
    /\ hist.connectEntered <= 1
    /\ hist.dials <= 1
    /\ hist.dials <= hist.connectEntered

\* The upstream was dialled on the first two lines and a third line, a
\* CAPTCHA the verifier accepted, has been processed since.
C6_Witness ==
    /\ hist.connectEntered = 1
    /\ hist.dials = 1
    /\ hist.atConnect.cmd \in {"NICK", "USER"}
    /\ hist.captchaAccepted
    /\ Verified
    /\ WorkerIdle

Increasing(seq) ==
    \A i, j \in 1..Len(seq) : i < j => seq[i].n < seq[j].n

\* The lines of a queue that came from outside (n numbers them in the
\* order the transport, or readUpstream, read them)
Numbered(seq) == SelectSeq(seq, LAMBDA l : l.n > 0)

\* The lines the statements ops still have to pass on
PendingLines(ops) ==
    [i \in 1..Len(SelectSeq(ops, LAMBDA o : o.op = "send")) |->
        SelectSeq(ops, LAMBDA o : o.op = "send")[i].line]

\* The upstream lines the data signals of seq carry
DataSignals(seq) ==
    SelectSeq(seq, LAMBDA sg : sg.kind = "data" /\ sg.from = "upstream")

\* The data signals the statements ops still have to send
PendingSignals(ops) ==
    [i \in 1..Len(SelectSeq(ops, LAMBDA o : o.op = "signal")) |->
        SelectSeq(ops, LAMBDA o : o.op = "signal")[i].sig]

\* C8: the client's lines are written upstream in the order the transport
\* put them on Recv, and the upstream's lines are signalled to the client
\* in the order readUpstream read them: at every moment the lines written,
\* then those waiting in UpstreamSend, in the worker's hands, in the
\* throttler's output and in Recv are in the client's order, and so are the
\* data signals sent, then the worker's, then UpstreamRecv.
C8_LinesKeepOrder ==
    /\ Increasing(Numbered(written) \o UpstreamSend
                  \o PendingLines(todo["worker"]) \o Output \o Recv)
    /\ Increasing(DataSignals(sent)
                  \o DataSignals(PendingSignals(todo["worker"]))
                  \o UpstreamRecv)

\* Two lines of the client have been written upstream and two lines of
\* the upstream have been signalled to the client.
C8_Witness ==
    /\ Len(Numbered(written)) >= 2
    /\ Len(DataSignals(sent)) >= 2
    /\ DataSignals(sent)[1].a = "001"

\* How many lines writeWebircLines and maybeSendPass write for UpstreamConfig
PreludeLen ==
    (IF UpstreamConfig.WebircPassword = "on" THEN 1 ELSE 0)
    + (IF UpstreamConfig.ServerPassword = "on" THEN 1 ELSE 0)

\* C9: on a dialled stream the WEBIRC line, when a WEBIRC password is
\* configured, is the first line written; the PASS line, when a server
\* password is configured, comes right after it (first when there is no
\* WEBIRC line); every line of the client comes after both, NICK and USER
\* in the order the client sent them; nothing is written without a stream.
C9_PreludeFirst ==
    /\ conn = "none" => written = <<>>
    /\ conn # "none" =>
          /\ Len(written) >= PreludeLen
          /\ UpstreamConfig.WebircPassword = "on" => written[1].cmd = "WEBIRC"
          /\ UpstreamConfig.ServerPassword = "on" =>
                written[PreludeLen].cmd = "PASS"
          /\ \A i \in 1..Len(written) :
                /\ written[i].n > 0 => i > PreludeLen
                /\ written[i].cmd \in {"WEBIRC", "PASS"} /\ written[i].n = 0
                      => i <= PreludeLen
          /\ \A i, j \in 1..Len(written) :
                (i < j /\ written[i].cmd \in {"NICK", "USER"}
                       /\ written[j].cmd \in {"NICK", "USER"})
                   => written[i].n < written[j].n

\* WEBIRC, PASS, and then the client's NICK and USER have been written.
C9_Witness ==
    /\ Len(written) = 4
    /\ written[1].cmd = "WEBIRC"
    /\ written[2].cmd = "PASS"
    /\ written[3].cmd = "NICK"
    /\ written[4].cmd = "USER"

\* The state signals of seq that say a
StateSignals(seq, a) ==
    SelectSeq(seq, LAMBDA sg : sg.kind = "state" /\ sg.a = a)

\* The signals of seq that makeUpstreamConnection sent
DialSignals(seq) == SelectSeq(seq, LAMBDA sg : sg.from = "dial")

\* makeUpstreamConnection failed and its SendClientSignal and StartShutdown
\* calls have returned
DialFailureHandled ==
    /\ hist.dialFailed
    /\ \A i \in 1..Len(todo["worker"]) :
          /\ todo["worker"][i].sig.from # "dial"
          /\ todo["worker"][i].arg # "err_connecting_upstream"

\* The codes a state closed signal of makeUpstreamConnection carries:
\* "err_" and the class of the error, err_tls, err_proxy, or nothing for
\* an error of a direct dial that typeOfErr does not classify.
DialErrorCodes ==
    {"err_timeout", "err_refused", "err_unknown_host", "err_tls", "err_proxy", ""}

\* C10 as stated: once a failed dial has been handled, exactly one state
\* closed signal has been enqueued, no state connected signal, nothing has
\* been written upstream and the shutdown reason is
\* err_connecting_upstream.  (Refuted: when the session is already shutting
\* down, the signal is not sent and the earlier reason stands.)
C10_DialFailureSignalsOnce ==
    DialFailureHandled =>
       /\ Len(StateSignals(sent, "closed")) = 1
       /\ Len(StateSignals(sent, "connected")) = 0
       /\ written = <<>>
       /\ hist.shutdownReason = "err_connecting_upstream"

\* C10 amended: a failed dial never enqueues state connected, writes
\* nothing upstream and leaves no stream; makeUpstreamConnection enqueues
\* at most one signal, a state closed with a code of DialErrorCodes; once
\* the failure is handled the session is shut down; when the reason is
\* err_connecting_upstream that one signal was sent, and when it was not
\* sent the session was shutting down already and the reason of the
\* earlier StartShutdown call stands.
C10_DialFailureClosesSession ==
    hist.dialFailed =>
       /\ Len(StateSignals(sent, "connected")) = 0
       /\ written = <<>>
       /\ conn = "none"
       /\ upstream = "nil"
       /\ State \in {ClientStateConnecting, ClientStateEnding}
       /\ Len(DialSignals(sent)) <= 1
       /\ \A i \in 1..Len(DialSignals(sent)) :
             /\ DialSignals(sent)[i].kind = "state"
             /\ DialSignals(sent)[i].a = "closed"
             /\ DialSignals(sent)[i].b \in DialErrorCodes
       /\ DialFailureHandled =>
             /\ shuttingDown
             /\ hist.shutdownReason # ""
             /\ hist.shutdownReason = "err_connecting_upstream"
                   => Len(DialSignals(sent)) = 1
             /\ Len(DialSignals(sent)) = 0 => hist.signalDropped

\* A dial failed with a refused connection, the one state closed signal
\* went out and the session shut down for err_connecting_upstream.
C10_Witness ==
    /\ DialFailureHandled
    /\ Len(DialSignals(sent)) = 1
    /\ StateSignals(sent, "closed") = DialSignals(sent)
    /\ DialSignals(sent)[1].b = "err_refused"
    /\ hist.shutdownReason = "err_connecting_upstream"
    /\ written = <<>>

\* The signals of seq that the UpstreamRecv-closed case of handleDataLine
\* sent
UpstreamClosedSignals(seq) ==
    SelectSeq(seq, LAMBDA sg : sg.from = "upstream_closed")

\* The worker has seen UpstreamRecv closed and its SendClientSignal and
\* StartShutdown calls have returned
UpstreamEndHandled ==
    /\ hist.upstreamEndSeen
    /\ todo["worker"] = <<>>

\* The synthetic QUIT has been written upstream
SyntheticQuitWritten ==
    \E i \in 1..Len(written) : written[i].cmd = "QUIT_SYNTHETIC"

C12_SyntheticQuitWhenConnected ==
    /\ hist.quitSkipped => ~hist.connectedAtClose
    /\ SyntheticQuitWritten =>
          /\ hist.everConnected
          /\ hist.shutdownReason # "upstream_closed"

\* ------------------------------------------------------------------ C13
\* A QUIT line of the client has been written to the upstream stream
ClientQuitWritten == \E i \in 1..Len(written) : written[i].cmd = "QUIT"

\* C13: once a QUIT of the client, in any form (with or without a message,
\* in any letter case), has been passed on to the upstream, SeenQuit is
\* true and no synthetic QUIT is written.
C13_ClientQuitIsSeen ==
    ClientQuitWritten => SeenQuit /\ ~SyntheticQuitWritten

\* ------------------------------------------------------------------ C16
\* The signals that CAPTCHA handling enqueues on a failed verification
CaptchaSignals(seq) ==
    SelectSeq(seq, LAMBDA sig :
        \/ sig.kind = "data" /\ sig.a = "ERROR" /\ sig.b = "Invalid captcha"
        \/ sig.kind = "state" /\ sig.a = "closed" /\ sig.b = "bad_captcha")

\* C16: a session created while verification is not required is Verified
\* from construction onward, and no client line makes it enqueue
\* ERROR :Invalid captcha or state closed bad_captcha, or shut down for a
\* failed CAPTCHA.
C16_NoCaptchaWhenNotRequired ==
    (created /\ ~RequiresVerification) =>
        /\ Verified
        /\ CaptchaSignals(sent) = <<>>
        /\ hist.shutdownReason # "unverifed"

\* ------------------------------------------------------------------ C14
\* clientLineWorker has left its loop, ThrottledStringChannel.run has
\* closed its output, readUpstream's goroutine is not running, and no
\* upstream stream is open.
TasksTerminated ==
    /\ workerQuit
    /\ outputClosed
    /\ readerPc \in {"none", "done"}
    /\ conn # "open"

\* C14: once StartShutdown has been called, the selector worker, the
\* throttler and the upstream reader all terminate in the end and the
\* upstream stream, if one was opened, is closed.
C14_TasksTerminate == ShutdownCalled ~> TasksTerminated

\* ------------------------------------------------------------------ C15
\* The synthetic 005 lines among the signals seq
Synthetic005s(seq) ==
    SelectSeq(seq, LAMBDA d : d.made /\ d.line.cmd = "005")

\* Entry i of the script has been handled and its own line was sent on to
\* the client.
Delivered(i) ==
    /\ i <= pos
    /\ \E k \in 1..Len(session[script[i].to].down) :
          /\ session[script[i].to].down[k].n = i
          /\ ~session[script[i].to].down[k].made

\* Entry j is a line other than 005 that follows a 005 of the script.
FollowsIsupport(j) ==
    /\ script[j].line.cmd # "005"
    /\ \E i \in 1..(j - 1) : script[i].line.cmd = "005"

\* Entry i is a 005 that ProcessLineFromUpstream takes in: not halted, with
\* the nick and at least one more parameter.
IsupportReceived(i) ==
    /\ ~script[i].halt
    /\ script[i].line.parses
    /\ script[i].line.cmd = "005"
    /\ Len(script[i].line.params) > 1

\* Entry j is the first line after a received 005 that is not halted,
\* parses and is no 005.
InjectionPoint(j) ==
    LET due(x) == /\ ~script[x].halt
                  /\ script[x].line.parses
                  /\ script[x].line.cmd # "005"
                  /\ \E i \in 1..(x - 1) : IsupportReceived(i)
    IN  due(j) /\ \A x \in 1..(j - 1) : ~due(x)

\* A 005 received before entry j names the EXTJWT token.
ExtJwtAdvertised(j) ==
    \E i \in 1..(j - 1) :
       /\ IsupportReceived(i)
       /\ \E x \in 2..(Len(script[i].line.params) - 1) :
             TokenKey(script[i].line.params[x]) = "EXTJWT"

RECURSIVE TrackedAfter(_)
TrackedAfter(i) ==
    IF i = 0
       THEN [nick |-> "alice", chans |-> {}]
       ELSE LET before == TrackedAfter(i - 1)
                m == script[i].line
                own == m.prefix = before.nick
            IN  CASE own /\ m.cmd = "NICK" ->
                       [before EXCEPT !.nick = m.params[1]]
                  [] own /\ m.cmd = "JOIN" ->
                       [before EXCEPT !.chans = @ \cup {ChanLower(m.params[1])}]
                  [] own /\ m.cmd = "PART" ->
                       [before EXCEPT !.chans = @ \ {ChanLower(m.params[1])}]
                  [] own /\ m.cmd = "QUIT" ->
                       [before EXCEPT !.chans = {}]
                  [] OTHER -> before

\* C17: after any sequence of upstream JOIN, PART, QUIT and NICK lines the
\* tracked channel set holds exactly the channels (case-insensitively)
\* joined under the session's current nick and not since parted or dropped
\* by a QUIT of the session's own nick; lines of other nicks never change
\* it, and after a self-QUIT it is empty.
C17_ChannelsTracked ==
    /\ session["A"].Nick = TrackedAfter(pos).nick
    /\ session["A"].Channels = TrackedAfter(pos).chans

\* The script entry handled last, for session A
LastFromClient(cmd) ==
    /\ pos > 0
    /\ script[pos].to = "A"
    /\ script[pos].dir = "client"
    /\ script[pos].line.parses
    /\ script[pos].line.cmd = cmd

\* The signals and the upstream lines the last entry left behind
LastDown == SelectSeq(session["A"].down, LAMBDA d : d.n = pos)

LastUp == SelectSeq(session["A"].up, LAMBDA u : u.n = pos)

\* A CAP REQ whose capability list asks for message-tags and for nothing
\* else
OnlyMessageTags(m) ==
    /\ Len(m.params) = 2
    /\ m.params[1] = "REQ"
    /\ \E i \in 1..Len(m.params[2]) : NamesMessageTags(CapLower(m.params[2][i]))
    /\ \A i \in 1..Len(m.params[2]) :
          m.params[2][i] = "" \/ NamesMessageTags(CapLower(m.params[2][i]))

\* A CAP REQ line that names a message-tags capability in some parameter
NamesMessageTagsCap(m) ==
    /\ m.cmd = "CAP"
    /\ Len(m.params) > 1
    /\ m.params[1] = "REQ"
    /\ \E k \in 2..Len(m.params) : \E i \in 1..Len(m.params[k]) :
          NamesMessageTags(CapLower(m.params[k][i]))

\* C19: with message-tags emulation on, a client CAP REQ that asks for
\* message-tags only gets exactly one downstream line CAP * ACK :<cap> and
\* nothing goes upstream for it, and no CAP REQ written upstream while
\* emulation is on names a message-tags capability.
C19_MessageTagsReqAcked ==
    (LastFromClient("CAP") /\ session["A"].Features.Messagetags) =>
        /\ OnlyMessageTags(script[pos].line) =>
              /\ Len(LastDown) = 1
              /\ LastDown[1].line.cmd = "CAP"
              /\ LastDown[1].line.params[1] = "*"
              /\ LastDown[1].line.params[2] = "ACK"
              /\ Len(LastDown[1].line.params[3]) = 1
              /\ NamesMessageTags(LastDown[1].line.params[3][1])
              /\ LastUp = <<>>
        /\ \A i \in 1..Len(LastUp) : ~NamesMessageTagsCap(LastUp[i].line)

\* C20: while Features.ExtJwt is on, an EXTJWT naming a channel that is not
\* in the tracked set gets exactly one downstream line
\* 403 <nick> <channel> :No such channel, no EXTJWT token line, and nothing
\* goes upstream.
C20_NoSuchChannel ==
    (/\ LastFromClient("EXTJWT")
     /\ session["A"].Features.ExtJwt
     /\ Len(script[pos].line.params) > 0
     /\ script[pos].line.params[1] # "*"
     /\ ChanLower(script[pos].line.params[1]) \notin session["A"].Channels) =>
        /\ Len(LastDown) = 1
        /\ LastDown[1].made
        /\ LastDown[1].line.cmd = "403"
        /\ LastDown[1].line.params =
              <<session["A"].Nick, script[pos].line.params[1], "No such channel">>
        /\ LastUp = <<>>

C20_Witness ==
    /\ LastFromClient("EXTJWT")
    /\ session["A"].Features.ExtJwt
    /\ script[pos].line.params = <<"#B", "svc">>
    /\ session["A"].Channels = {"#a"}
    /\ Len(LastDown) = 1
    /\ LastDown[1].line.cmd = "403"

\* The "+"-prefixed tags of a line
PlusTags(m) == {t \in m.tags : ClientTag(t)}

\* Script entry i files or looks up the key of message m of alice: a send of
\* session A, or a copy from upstream, in a session with emulation on.
TouchesKey(i, m) ==
    /\ session[script[i].to].Features.Messagetags
    /\ script[i].line.cmd = m.cmd
    /\ script[i].line.params = m.params
    /\ \/ script[i].dir = "client"
       \/ script[i].dir = "upstream" /\ script[i].line.prefix = "alice"

\* The entry handled last is the server's copy, reaching session B, of the
\* message session A sent at entry j with "+" tags, nothing having touched
\* its key in between.
CopyReachesB(j) ==
    /\ pos > 1
    /\ j \in 1..(pos - 1)
    /\ script[pos].to = "B"
    /\ script[pos].dir = "upstream"
    /\ script[pos].line.prefix = "alice"
    /\ session["B"].Features.Messagetags
    /\ script[j].dir = "client"
    /\ TouchesKey(j, script[pos].line)
    /\ PlusTags(script[j].line) # {}
    /\ \A i \in (j + 1)..(pos - 1) : ~TouchesKey(i, script[pos].line)

Fragment(line) == line.params[Len(line.params)]

\* The fragments of the lines, put together in the order of the lines
RECURSIVE Fragments(_)
Fragments(lines) ==
    IF lines = <<>> THEN <<>>
    ELSE Fragment(Head(lines)) \o Fragments(Tail(lines))

\* C21 (as stated): a token longer than 200 characters goes out as EXTJWT
\* messages of which all but the last have "*" as their first parameter,
\* each with at most 200 token characters, the fragments in order making up
\* the token; a token of at most 200 characters goes out as one message.
C21_FirstParamStar ==
    result # <<>> =>
       LET lines == result[1] IN
       /\ \A i \in 1..(Len(lines) - 1) : lines[i].params[1] = "*"
       /\ \A i \in 1..Len(lines) : Len(Fragment(lines[i])) <= MAX_EXTJWT_SIZE
       /\ Fragments(lines) = TokenSigned(args.len)
       /\ args.len <= MAX_EXTJWT_SIZE => Len(lines) = 1

\* C21 (amended): all but the last message have four parameters, target,
\* "*" for the service, "*" and a fragment of exactly 200 characters; the
\* last has three, target, "*" and a fragment of 1 to 200 characters; the
\* fragments in order make up the token; a token of at most 200 characters
\* goes out as one message.
C21_ThirdParamStar ==
    result # <<>> =>
       LET lines == result[1] IN
       /\ Len(lines) > 0
       /\ \A i \in 1..(Len(lines) - 1) :
             /\ Len(lines[i].params) = 4
             /\ lines[i].params[1] = args.target
             /\ lines[i].params[2] = "*"
             /\ lines[i].params[3] = "*"
             /\ Len(Fragment(lines[i])) = MAX_EXTJWT_SIZE
       /\ Len(lines[Len(lines)].params) = 3
       /\ lines[Len(lines)].params[1] = args.target
       /\ lines[Len(lines)].params[2] = "*"
       /\ Len(Fragment(lines[Len(lines)])) \in 1..MAX_EXTJWT_SIZE
       /\ \A i \in 1..Len(lines) : lines[i].cmd = "EXTJWT"
       /\ Fragments(lines) = TokenSigned(args.len)
       /\ args.len <= MAX_EXTJWT_SIZE => Len(lines) = 1

C21_Witness ==
    /\ result # <<>>
    /\ args.target = "#a"
    /\ args.len = 2 * MAX_EXTJWT_SIZE + 1
    /\ Len(result[1]) = 3

\* C22: a WEBIRC line that is written has exactly five parameters
\* (password, gateway name, client hostname, client IP, tags) whatever the
\* connection tags, the empty set included; a client IP beginning with ":"
\* is written with a leading "0"; a tag string holding a space is prefixed
\* with ":" (so that it is one parameter).
C22_WebircFiveParams ==
    result # <<>> =>
       LET params == ircParams(ircNextToken(result[1], FALSE).rest) IN
       /\ Len(params) = 5
       /\ params[1] = <<"p", "w">>
       /\ params[2] = <<"g", "w">>
       /\ params[3] = args.RemoteHostname
       /\ params[4] = IF args.RemoteAddr[1] = ":"
                         THEN <<"0">> \o args.RemoteAddr
                         ELSE args.RemoteAddr
       /\ params[5] = buildWebircTags(args.Tags)

RejectionSignals(seq) ==
    SelectSeq(seq, LAMBDA sg : sg.kind = "state" /\ sg.a = "closed"
                               /\ sg.from \in {"captcha", "connect"})

\* A client line was rejected (destination not allowed, connection halted
\* by irc.connection.pre, failed captcha) and the calls that follow the
\* rejection have returned
RejectionHandled ==
    /\ hist.rejected # ""
    /\ \A i \in 1..Len(todo["worker"]) :
          /\ todo["worker"][i].sig.from \notin {"captcha", "connect"}
          /\ todo["worker"][i].op # "shutdown"

\* C25 (as stated): once a rejection has been handled, the state closed
\* signal with its code has been enqueued, the session is shut down, and no
\* signal was enqueued after that one.
C25_RejectionSignalsLast ==
    RejectionHandled =>
       /\ shuttingDown
       /\ Len(sent) > 0
       /\ sent[Len(sent)].kind = "state"
       /\ sent[Len(sent)].a = "closed"
       /\ sent[Len(sent)].b = hist.rejected

\* C25 (amended): once a rejection has been handled the session is shut
\* down; at most one state closed signal of a rejection has been enqueued,
\* with err_forbidden or bad_captcha, and the only signals after it come
\* from a ClientClose call of a script; the shutdown reason is then the one
\* the rejection gives unless another task's StartShutdown came between
\* the signal and the rejection's own; when no such signal was enqueued the
\* session was shutting down before the rejection and the earlier reason
\* stands; a reason "unverifed" means the bad_captcha signal was enqueued.
C25_RejectionClosesSession ==
    RejectionHandled =>
       /\ shuttingDown
       /\ hist.shutdownReason # ""
       /\ hist.rejected \in {"err_forbidden", "bad_captcha"}
       /\ Len(RejectionSignals(sent)) <= 1
       /\ \A i \in 1..Len(sent) :
             (/\ sent[i].kind = "state"
              /\ sent[i].a = "closed"
              /\ sent[i].from \in {"captcha", "connect"}) =>
                /\ sent[i].b = (IF sent[i].from = "captcha"
                                   THEN "bad_captcha" ELSE "err_forbidden")
                /\ hist.shutdownReason \in
                      (IF sent[i].from = "captcha"
                          THEN {"unverifed"}
                          ELSE {"err_no_upstream", "err_connecting_upstream"})
                      \cup {"client_closed"} \cup HookReasons
                /\ \A j \in (i + 1)..Len(sent) : sent[j].from = "hook"
       /\ hist.shutdownReason = "unverifed" =>
             /\ Len(RejectionSignals(sent)) = 1
             /\ RejectionSignals(sent)[1].b = "bad_captcha"
       /\ RejectionSignals(sent) = <<>> =>
             /\ hist.signalDropped
             /\ hist.shutdownReason # "unverifed"

\* A failed captcha closed the session, and so did a destination the
\* whitelist does not allow.
C25_Witness ==
    /\ RejectionHandled
    /\ Len(RejectionSignals(sent)) = 1
    /\ hist.rejected = "err_forbidden"
    /\ hist.shutdownReason = "err_no_upstream"
    /\ sent[Len(sent)].b = "err_forbidden"
    /\ Len(sent) = 2

\* C26: typeOfErr gives "timeout" for a timeout; "refused" for a refused
\* connection (ECONNREFUSED itself, wrapped by the dialer, or reported by
\* the proxy) and for an error of a read; "unknown_host" for a failed
\* lookup during a dial; "" for a reset connection and for every other
\* error.
C26_ErrTaxonomy ==
    result # <<>> =>
       result[1] =
          (IF args.type = "nil" THEN ""
           ELSE IF \/ IsTimeout(args)
                   \/ args.type = "proxy.ConnError" /\ args.detail = "conn_timeout"
              THEN "timeout"
           ELSE IF \/ "ECONNREFUSED" \in {args.detail, args.inner}
                   \/ args.type = "proxy.ConnError" /\ args.detail = "conn_refused"
                   \/ args.type = "net.OpError" /\ args.detail = "read"
              THEN "refused"
           ELSE IF \/ /\ args.type = "net.OpError"
                      /\ args.detail = "dial"
                      /\ args.inner = "no such host"
                   \/ args.type = "proxy.ConnError" /\ args.detail = "not_found"
              THEN "unknown_host"
           ELSE "")

\* C27: the worker is never held in c.UpstreamSend <- clientLine: whatever
\* number of client lines it has to pass on before the upstream exists, or
\* faster than they are written, the send returns and the worker goes back
\* to its queues.  (The worker is the only reader of UpstreamSend, so a
\* send that finds the queue full never returns.)
C27_WorkerSendReturns ==
    ~(HasNext("worker", "send") /\ Len(UpstreamSend) >= ChanCap)

\* C28: when the upstream has been dialled the destination is a configured
\* upstream (DestHost is empty) or a HOST destination the whitelist allows;
\* with gateway mode off no HOST line sets a destination; with a
\* destination the whitelist rejects there is no dial and no stream.
C28_DialDestinationAllowed ==
    /\ hist.dials > 0 => (DestHost = "" \/ isIrcAddressAllowed(DestHost))
    /\ Config.Gateway = "off" => DestHost = ""
    /\ (DestHost # "" /\ DestHost \notin {"irc.allowed"}) =>
          /\ hist.dials = 0
          /\ conn = "none"
          /\ upstream = "nil"
          /\ written = <<>>

\* A client gave a destination the whitelist rejects and connectUpstream
\* has turned it down; in another run the allowed one has been dialled.
C28_Witness ==
    /\ DestHost = "irc.forbidden"
    /\ hist.connectEntered = 1
    /\ shuttingDown
    /\ hist.shutdownReason = "err_no_upstream"

\* The command of a line written upstream, in upper case
WrittenCommand(w) == StringToUpper(ircParseLine(w.data).Command)

\* C29 as stated: no line of the client whose command is HOST or ENCODING
\* is written to the upstream stream, whenever it was sent
C29_NoHostNoEncodingUpstream ==
    session # <<>> /\ "written" \in DOMAIN session =>
       \A i \in 1..Len(session.written) :
          session.written[i].from = "client" =>
             WrittenCommand(session.written[i])
                \notin {<<"H", "O", "S", "T">>,
                        <<"E", "N", "C", "O", "D", "I", "N", "G">>}

\* C29 amended: no ENCODING line is written upstream, and no HOST line that
\* the session processed before connectUpstream was entered; a HOST line
\* processed after that is sent upstream unchanged.
C29_NoEarlyHostNoEncodingUpstream ==
    session # <<>> /\ "written" \in DOMAIN session =>
       /\ \A i \in 1..Len(session.written) :
             session.written[i].from = "client" =>
                /\ WrittenCommand(session.written[i])
                      # <<"E", "N", "C", "O", "D", "I", "N", "G">>
                /\ WrittenCommand(session.written[i]) = <<"H", "O", "S", "T">>
                      => session.written[i].started
       /\ \A i \in 1..Len(session.UpstreamSend) :
             /\ WrittenCommand(session.UpstreamSend[i])
                   # <<"E", "N", "C", "O", "D", "I", "N", "G">>
             /\ WrittenCommand(session.UpstreamSend[i]) = <<"H", "O", "S", "T">>
                   => session.UpstreamSend[i].started

\* A HOST line set the destination before the connection, an ENCODING line
\* was taken, the upstream is open and only NICK and USER were written.
C29_Witness ==
    /\ session # <<>> /\ "written" \in DOMAIN session
    /\ pos = MaxForwardLines
    /\ session.Gateway
    /\ session.DestHost = <<"h">>
    /\ session.Encoding = <<"u">>
    /\ session.upstream = "open"
    /\ session.UpstreamSend = <<>>
    /\ Len(session.written) = 2
    /\ \A i \in 1..2 : session.written[i].from = "client"

\* C30: once the gateway has written its server password in the prelude, no
\* PASS line of the client, in any letter case, is written upstream, so the
\* upstream stream carries at most one PASS line.
C30_AtMostOnePass ==
    (session # <<>> /\ "written" \in DOMAIN session /\ session.SentPass) =>
       /\ \A i \in 1..Len(session.written) :
             WrittenCommand(session.written[i]) = <<"P", "A", "S", "S">>
                => session.written[i].from = "gateway"
       /\ Cardinality({i \in 1..Len(session.written) :
             WrittenCommand(session.written[i]) = <<"P", "A", "S", "S">>}) <= 1

\* Entry n of the script is a client CAP REQ that went upstream with its
\* capability list changed.
StrippedReq(n) ==
    /\ script[n].dir = "client"
    /\ \E i \in 1..Len(session[script[n].to].up) :
          /\ session[script[n].to].up[i].n = n
          /\ session[script[n].to].up[i].line # script[n].line

\* Entry n of the script is an upstream CAP ACK that reached the client
\* with its capability list changed.
RewrittenAck(n) ==
    /\ script[n].dir = "upstream"
    /\ script[n].line.cmd = "CAP"
    /\ script[n].line.params[2] = "ACK"
    /\ \E i \in 1..Len(session[script[n].to].down) :
          /\ session[script[n].to].down[i].n = n
          /\ ~session[script[n].to].down[i].made
          /\ session[script[n].to].down[i].line # script[n].line

\* C31: an upstream CAP ACK gets the remembered message-tags token only as
\* the answer to a forwarded CAP REQ that message-tags was stripped from, at
\* most once per such REQ (up to every line, no more ACKs were rewritten
\* than REQs were stripped before it), the token is forgotten once it was
\* appended, and nothing is appended after the gateway's own CAP * ACK.
C31_AckRewrittenOncePerStrippedReq ==
    /\ \A n \in 1..pos :
          RewrittenAck(n) =>
             Cardinality({k \in 1..n : RewrittenAck(k)})
                <= Cardinality({j \in 1..(n - 1) : StrippedReq(j)})
    /\ (pos > 0 /\ RewrittenAck(pos)) =>
          session[script[pos].to].RequestedMessageTagsCap = ""

\* The gateway has sent its own CAP * ACK to session A.
SyntheticAckSent ==
    \E i \in 1..Len(session["A"].down) :
       /\ session["A"].down[i].made
       /\ session["A"].down[i].line.cmd = "CAP"

\* C38: after the gateway's own CAP * ACK for message-tags the emulation
\* stays on, whatever CAP REQ the client and whatever CAP LS the server
\* sends later.
C38_EmulationStaysOn ==
    SyntheticAckSent => session["A"].Features.Messagetags

\* The next step hands a TAGMSG with a target to a session whose emulation
\* is on.
TagMsgStep ==
    /\ pos < Len(script)
    /\ script[pos + 1].dir = "client"
    /\ script[pos + 1].line.cmd = "TAGMSG"
    /\ Len(script[pos + 1].line.params) > 0
    /\ session[script[pos + 1].to].Features.Messagetags

\* C32: with the emulation on, a TAGMSG is signalled to exactly the other
\* sessions on the same upstream host whose nick is the target or that
\* track the target as a channel, never to its sender, and is not written
\* upstream.
C32_TagmsgFanout ==
    [][TagMsgStep =>
         /\ \A x \in Sessions :
               (Len(session'[x].down) > Len(session[x].down))
                  <=> /\ x # script[pos + 1].to
                      /\ HostLower(session[x].Hostname)
                            = HostLower(session[script[pos + 1].to].Hostname)
                      /\ \/ NickLower(script[pos + 1].line.params[1])
                               = NickLower(session[x].Nick)
                         \/ ChanLower(script[pos + 1].line.params[1])
                               \in session[x].Channels
         /\ \A x \in Sessions : session'[x].up = session[x].up]_vars

\* The next step hands session A an upstream MODE line for a channel it
\* tracks.
ModeStep ==
    /\ pos < Len(script)
    /\ script[pos + 1].dir = "upstream"
    /\ script[pos + 1].to = "A"
    /\ ~script[pos + 1].halt
    /\ script[pos + 1].line.cmd = "MODE"
    /\ IsChannelName(script[pos + 1].line.params[1])
    /\ ChanLower(script[pos + 1].line.params[1]) \in session["A"].Channels

\* The modes of the session's nick on the channel under key after the
\* changes of line m that name the nick are applied to those recorded
NetEffect(c, m, key) ==
    ApplyModes(m.params[2], 1, FALSE, 1, m, c.Nick, ModesOf(c, key)).modes

\* C33: a MODE line for a tracked channel leaves the modes of the session's
\* nick at the net effect of its changes on those recorded before (added by
\* +m, removed by -m, the modes it does not mention kept), and leaves the
\* set of channels, their joined times and the modes of the other channels
\* as they were.
C33_ModeNetEffect ==
    [][ModeStep =>
         /\ session'["A"].Channels = session["A"].Channels
         /\ session'["A"].Joined = session["A"].Joined
         /\ \A key \in session["A"].Channels :
               ModesOf(session'["A"], key) =
                  IF key = ChanLower(script[pos + 1].line.params[1])
                     THEN NetEffect(session["A"], script[pos + 1].line, key)
                     ELSE ModesOf(session["A"], key)]_vars

\* C39: every line from upstream that the hook did not halt has led to
\* exactly one data signal carrying it, a 005 with a single parameter and a
\* MODE for a channel the session does not track included.
C39_OneSignalPerLine ==
    \A n \in 1..pos :
       (script[n].dir = "upstream" /\ ~script[n].halt) =>
          Cardinality({i \in 1..Len(session[script[n].to].down) :
                          /\ session[script[n].to].down[i].n = n
                          /\ ~session[script[n].to].down[i].made}) = 1

\* C34: once StartShutdown has been called on the session no upstream dial
\* is made for it, whatever client lines are queued or arrive later.
C34_NoDialAfterShutdown ==
    [][hist.shutdownCalls > 0 => hist'.dials = hist.dials]_vars

\* C36: a StartShutdown call never waits for the lock behind a
\* SendClientSignal that holds it while waiting for room in Signals, so it
\* returns without the transport taking a signal.
C36_ShutdownNeverWaitsForSignals ==
    \A t \in Tasks :
       ~(/\ HasNext(t, "shutdown")
         /\ shuttingDownLock \notin {"none", t}
         /\ Len(Signals) >= ChanCap
         /\ ~ENABLED StartShutdown(t))


\* C35: in every interleaving of the worker with readUpstream's teardown
\* (Close on the stream, then client.upstream = nil) the worker calls Write
\* and Close only on a stream that is there, never on nil.
C35_NoCallOnAbsentUpstream ==
    \A i \in 1..Len(session.calls) : session.calls[i].on # "nil"


\* C37: a session whose transport has stopped taking its signals never
\* keeps the worker of another session waiting: a worker that is in
\* SendClientSignal of such a session (the TAGMSG loop) can complete it.
C37_NoStallByOtherSession ==
    \A a \in Sessions : \A b \in Sessions \ {a} :
       (session[a].sending = b /\ ~session[b].draining)
          => ENABLED StallSend(a, b)

====
